---- MODULE Spec2Model ----
(***************************************************************************)
(* Model of the blockchain engine (package blockchain: block.go and        *)
(* blockchain.go) and of the payment gate of the Compute responder         *)
(* (p2p/compute_protocol.go), together with the callers that drive them:   *)
(* the HTTP transaction handler, the miner loop and the gossip listener.   *)
(*                                                                         *)
(* Strings are TLA+ strings, so the records hashed by CalculateHash are    *)
(* built exactly as fmt.Sprintf builds them.  SHA-256 is modelled by       *)
(* SHA256Hex: a digest whose leading hex characters are a checksum of the  *)
(* input and whose remainder is the input itself, i.e. a deterministic,    *)
(* collision-free digest whose prefix varies with the nonce.               *)
(***************************************************************************)
EXTENDS Integers, Sequences, FiniteSets, TLC

----
(* Bounds of the model *)

\* chain height (Index of the tip) at which AddBlock is no longer called
MaxHeight == 2
\* number of client transactions (mined or pending) at which AddTransaction
\* is no longer called
MaxTxs == 3
\* nonces MineBlock tries before the model gives up the search
MaxNonce == 4
\* length in bytes of the longest file that is sharded
MaxDataLen == 11
\* transactions posted to a compute node before it mines
MaxJobTxs == 2
\* blocks a compute node mines
MaxJobHeight == 1
\* block messages of other peers waiting in the subscription
MaxSub == 1
\* blocks a gossiping node adds
MaxGossipHeight == 2
\* transactions waiting in the mempool of a gossiping node
MaxGossipTxs == 1
\* seconds setupNode can take from the go statement of the announcer to the
\* registration of the Compute handler
SetupSeconds == 2
\* main.go: time.Sleep(5 * time.Second)
AnnounceDelay == 5

----
(* Program constants *)

\* blockchain.go: var Difficulty = 2
Difficulty == 2
\* blockchain.go: Amount: 1000000 (genesis premine)
GenesisAmount == 1000000
\* compute_protocol.go: if tx.Amount < 5
MinComputeFee == 5
\* main.go: Amount: 50 (block reward of the miner loop)
BlockReward == 50

\* wallet addresses that occur as minerAddress, From and To
Addrs == {"A", "B"}
\* amounts a client puts into a transaction: below the compute fee, the fee,
\* and the whole premine
Amounts == {MinComputeFee - 1, MinComputeFee, GenesisAmount}
\* goroutines that call AddBlock: the miner loop and the gossip listener
Procs == {"miner", "gossip"}

VARIABLES
    dbLh,        \* store family "lh": function with domain {} or {"lh"}
    dbBlocks,    \* store family <blockHash> -> serialized block
    dbTxIndex,   \* store family tx_<txID> -> block hash
    chainOpen,   \* TRUE while a process holds the Blockchain struct
    myAddress,   \* w.Address() of the running process
    LastHash,    \* Blockchain.LastHash
    Mempool,     \* Blockchain.Mempool
    now,         \* time.Now().Unix()
    inflight,    \* per goroutine: the locals of an AddBlock call in progress
    lastOp,      \* the last call and what it returned
    storeHandler,    \* v of the handler a storage peer registered for StoreProtocol
    retrieveHandler, \* v of the handler it registered for RetrieveProtocol
    dht,         \* the peer's n.DHT != nil
    vault,       \* the peer's Vault: key bytes -> data bytes
    diskOk,      \* the peer's Vault accepts writes
    stream,      \* the stream a client has open to the peer
    pending,     \* keys whose `go n.DHT.Announce` has not run yet
    providers,   \* keys the DHT lists the peer as provider of
    download,    \* a download in progress: the file and the shards collected
    upload,      \* an upload in progress: its destinations and the next shard
    sub,         \* the node's subscription to the block topic: messages not yet read
    cancelled,   \* the root context of main is cancelled
    node         \* the full node process startFullNode runs: its mode and what it has set up

\* the storage peer and the stream to it
netVars == <<storeHandler, retrieveHandler, dht, vault, diskOk, stream, pending, providers,
             download>>

\* the upload in progress, the block subscription, the root context and the
\* full node process
runVars == <<upload, sub, cancelled, node>>

vars == <<dbLh, dbBlocks, dbTxIndex, chainOpen, myAddress, LastHash, Mempool, now,
          inflight, lastOp, netVars, runVars>>

dbVars == <<dbLh, dbBlocks, dbTxIndex>>

----
(* Hashing *)

CharVal(c) ==
    CASE c = "0" -> 0 [] c = "1" -> 1 [] c = "2" -> 2 [] c = "3" -> 3
      [] c = "4" -> 4 [] c = "5" -> 5 [] c = "6" -> 6 [] c = "7" -> 7
      [] c = "8" -> 8 [] c = "9" -> 9 [] c = "A" -> 10 [] c = "B" -> 11
      [] OTHER -> 13

RECURSIVE CharSum(_)
\* the sum of the character values of s, computed by halves so that the
\* evaluation nests only as deep as the logarithm of Len(s)
CharSum(s) ==
    IF Len(s) = 0 THEN 0
    ELSE IF Len(s) = 1 THEN CharVal(s)
    ELSE LET half == Len(s) \div 2
         IN  CharSum(SubSeq(s, 1, half)) + CharSum(SubSeq(s, half + 1, Len(s)))

HexChar(n) == IF n = 0 THEN "0" ELSE "f"

\* hex.EncodeToString(sha256(record))
SHA256Hex(record) ==
    LET s == CharSum(record)
    IN  HexChar(s % 2) \o HexChar((s \div 2) % 2) \o ":" \o record

RECURSIVE Repeat(_, _)
\* strings.Repeat
Repeat(c, n) == IF n <= 0 THEN "" ELSE c \o Repeat(c, n - 1)

\* strings.HasPrefix
HasPrefix(s, prefix) ==
    /\ Len(s) >= Len(prefix)
    /\ SubSeq(s, 1, Len(prefix)) = prefix

----
(* block.go *)

\* Transaction.CalculateHash
TxCalculateHash(tx) ==
    SHA256Hex(tx.From \o tx.To \o ToString(tx.Amount) \o ToString(tx.Timestamp))

RECURSIVE TxData(_)
\* the loop txData += tx.ID of Block.CalculateHash
TxData(txs) == IF txs = <<>> THEN "" ELSE Head(txs).ID \o TxData(Tail(txs))

\* Block.CalculateHash
CalculateHash(b) ==
    SHA256Hex(ToString(b.Index) \o ToString(b.Timestamp) \o TxData(b.Transactions)
              \o b.PrevHash \o ToString(b.Nonce))

\* NewBlock
NewBlock(txs, prevHash, height, time) ==
    LET b0 == [Index |-> height, Timestamp |-> time, Transactions |-> txs,
               PrevHash |-> prevHash, Hash |-> "", Nonce |-> 0]
    IN  [b0 EXCEPT !.Hash = CalculateHash(b0)]

NewGenesisBlockEmptyPrev(coinbase, time) == NewBlock(<<coinbase>>, "", 0, time)

\* NewGenesisBlock
NewGenesisBlock(coinbase, time) == NewBlock(<<coinbase>>, "0", 0, time)

\* Block.Serialize (gob): the encoded field values in declaration order
Serialize(b) ==
    <<"gob", b.Index, b.Timestamp, b.Transactions, b.PrevHash, b.Hash, b.Nonce>>

\* DeserializeBlock
\* decoder.Decode(&block) returns no error on these bytes; on any other bytes
\* DeserializeBlock panics
GobDecodes(d) == Len(d) = 7 /\ d[1] = "gob"

DeserializeBlock(d) ==
    [Index |-> d[2], Timestamp |-> d[3], Transactions |-> d[4],
     PrevHash |-> d[5], Hash |-> d[6], Nonce |-> d[7]]

----
(* blockchain.go *)

RECURSIVE MineFrom(_, _)
MineFrom(b, fuel) ==
    IF HasPrefix(b.Hash, Repeat("0", Difficulty)) \/ fuel = 0
    THEN b
    ELSE LET b1 == [b EXCEPT !.Nonce = b.Nonce + 1]
         IN  MineFrom([b1 EXCEPT !.Hash = CalculateHash(b1)], fuel - 1)

MineBlockNoSearch(b) == b

\* MineBlock
MineBlock(b) == MineFrom(b, MaxNonce)

\* VerifyTransaction
VerifyTransaction(tx) == tx.Signature # ""

RECURSIVE BlockDeltaCreditOnly(_, _)
BlockDeltaCreditOnly(txs, address) ==
    IF txs = <<>> THEN 0
    ELSE (IF Head(txs).To = address THEN Head(txs).Amount ELSE 0)
         + BlockDeltaCreditOnly(Tail(txs), address)

\* the effect of one block on the balance of address (inner loop of GetBalance)
RECURSIVE BlockDelta(_, _)
BlockDelta(txs, address) ==
    IF txs = <<>> THEN 0
    ELSE (IF Head(txs).To = address THEN Head(txs).Amount ELSE 0)
         - (IF Head(txs).From = address THEN Head(txs).Amount ELSE 0)
         + BlockDelta(Tail(txs), address)

RECURSIVE BalanceFrom(_, _, _, _)
\* the loop of GetBalance: Iterator.Next from hash, until the genesis sentinel
\* or a hash the store does not have
BalanceFrom(blocks, hash, address, fuel) ==
    IF hash \notin DOMAIN blocks \/ fuel = 0 THEN 0
    ELSE LET block == DeserializeBlock(blocks[hash])
         IN  BlockDelta(block.Transactions, address)
             + (IF block.PrevHash = "" \/ block.PrevHash = "0" THEN 0
                ELSE BalanceFrom(blocks, block.PrevHash, address, fuel - 1))

\* GetBalance, reading the store `blocks` from the in-memory tip `tip`
GetBalanceAt(blocks, tip, address) ==
    BalanceFrom(blocks, tip, address, Cardinality(DOMAIN blocks))

GetBalance(address) == GetBalanceAt(dbBlocks, LastHash, address)

RECURSIVE FindInBlock(_, _)
\* the scan `for _, t := range block.Transactions` of FindTransaction
FindInBlock(txs, ID) ==
    IF txs = <<>> THEN [err |-> "transaction not found in block index"]
    ELSE IF Head(txs).ID = ID THEN [err |-> "", tx |-> Head(txs)]
    ELSE FindInBlock(Tail(txs), ID)

\* FindTransaction
FindTransaction(ID) ==
    IF ID \notin DOMAIN dbTxIndex THEN [err |-> "Key not found"]
    ELSE LET blockHash == dbTxIndex[ID]
         IN  IF blockHash \notin DOMAIN dbBlocks THEN [err |-> "Key not found"]
             ELSE FindInBlock(DeserializeBlock(dbBlocks[blockHash]).Transactions, ID)

----
(* State *)

NoBlock == [Index |-> 0, Timestamp |-> 0, Transactions |-> <<>>, PrevHash |-> "",
            Hash |-> "", Nonce |-> 0]

Idle == [pc |-> "idle", arg |-> <<>>, txs |-> <<>>, newBlock |-> NoBlock]

NoOp == [op |-> "none"]

\* no stream is open
NoStream == [proto |-> "none"]

\* no download is in progress
NoDownload == [data |-> <<>>, encoded |-> <<>>, shards |-> <<>>]

\* no upload is in progress
NoUpload == [state |-> "none"]

\* no full node process has been started
NodeOff == [state |-> "off"]

\* n.Host.ID() of the node
Self == "self"

\* peers the node can be connected to
RemotePeers == {"P1", "P2"}

\* a message of the block topic as the subscription hands it to the node
BlockMessage(from, b) == [ReceivedFrom |-> from, Data |-> Serialize(b)]

Init ==
    /\ dbLh = <<>>
    /\ dbBlocks = <<>>
    /\ dbTxIndex = <<>>
    /\ chainOpen = FALSE
    /\ myAddress = ""
    /\ LastHash = ""
    /\ Mempool = <<>>
    /\ now = 1
    /\ inflight = [p \in Procs |-> Idle]
    /\ lastOp = NoOp
    /\ storeHandler = "none"
    /\ retrieveHandler = "none"
    /\ dht = FALSE
    /\ vault = <<>>
    /\ diskOk = TRUE
    /\ stream = NoStream
    /\ pending = {}
    /\ providers = {}
    /\ download = NoDownload
    /\ upload = NoUpload
    /\ sub = <<>>
    /\ cancelled = FALSE
    /\ node = NodeOff

\* the block the store holds under hash
BlockAt(hash) == DeserializeBlock(dbBlocks[hash])

\* Index of the block lh names
TipHeight == BlockAt(dbLh["lh"]).Index

AllIdle == \A p \in Procs : inflight[p].pc = "idle"

----
(* InitBlockchain and Close *)

GenesisCoinbase(minerAddress) ==
    [From |-> "SYSTEM", To |-> minerAddress, Amount |-> GenesisAmount,
     Timestamp |-> 0, Signature |-> "", ID |-> "GENESIS_COINBASE"]

InitBlockchain(minerAddress) ==
    /\ ~chainOpen
    /\ IF "lh" \notin DOMAIN dbLh
       THEN LET genesis == MineBlock(NewGenesisBlock(GenesisCoinbase(minerAddress), now))
            IN  /\ dbBlocks' = (genesis.Hash :> Serialize(genesis)) @@ dbBlocks
                /\ dbLh' = ("lh" :> genesis.Hash)
                /\ LastHash' = genesis.Hash
                /\ lastOp' = [op |-> "InitBlockchain", created |-> TRUE,
                              minerAddress |-> minerAddress]
       ELSE /\ LastHash' = dbLh["lh"]
            /\ UNCHANGED <<dbBlocks, dbLh>>
            /\ lastOp' = [op |-> "InitBlockchain", created |-> FALSE,
                          minerAddress |-> minerAddress]
    /\ Mempool' = <<>>
    /\ chainOpen' = TRUE
    /\ myAddress' = minerAddress
    /\ UNCHANGED <<dbTxIndex, now, inflight>>

\* Blockchain.Close at process exit: the struct and its mempool are gone
Close ==
    /\ chainOpen
    /\ AllIdle
    /\ chainOpen' = FALSE
    /\ myAddress' = ""
    /\ LastHash' = ""
    /\ Mempool' = <<>>
    /\ lastOp' = [op |-> "Close"]
    /\ UNCHANGED <<dbVars, now, inflight>>
    /\ UNCHANGED <<netVars, runVars>>

----
(* AddTransaction *)

\* a transaction as a client builds it (CreateTransaction), signed or not
ClientTx(from, to, amount, time, sig) ==
    LET tx0 == [From |-> from, To |-> to, Amount |-> amount, Timestamp |-> time,
                Signature |-> sig, ID |-> ""]
    IN  [tx0 EXCEPT !.ID = TxCalculateHash(tx0)]

\* the transactions clients submit: signed transfers from A to B, and one
\* that carries no signature
TxInputs ==
    { ClientTx("A", "B", amount, 1, "R|S") : amount \in Amounts }
    \cup { ClientTx("A", "B", MinComputeFee, 1, "") }

RECURSIVE ClientTxCount(_)
\* transactions of txs that are no coinbase
ClientTxCount(txs) ==
    IF txs = <<>> THEN 0
    ELSE (IF Head(txs).From = "SYSTEM" THEN 0 ELSE 1) + ClientTxCount(Tail(txs))

RECURSIVE StoredTxCount(_)
StoredTxCount(hashes) ==
    IF hashes = {} THEN 0
    ELSE LET h == CHOOSE x \in hashes : TRUE
         IN  ClientTxCount(BlockAt(h).Transactions) + StoredTxCount(hashes \ {h})

AddTransactionErrOffByOne(tx) ==
    IF ~VerifyTransaction(tx) THEN "invalid transaction signature"
    ELSE IF GetBalance(tx.From) <= tx.Amount THEN "insufficient funds"
    ELSE ""

\* the error AddTransaction returns for tx ("" for nil)
AddTransactionErr(tx) ==
    IF ~VerifyTransaction(tx) THEN "invalid transaction signature"
    ELSE IF GetBalance(tx.From) < tx.Amount THEN "insufficient funds"
    ELSE ""

AddTransaction(tx) ==
    /\ chainOpen
    /\ StoredTxCount(DOMAIN dbBlocks) + Len(Mempool) < MaxTxs
    /\ LET err == AddTransactionErr(tx)
       IN  /\ Mempool' = IF err = "" THEN Append(Mempool, tx) ELSE Mempool
           /\ lastOp' = [op |-> "AddTransaction", tx |-> tx, err |-> err]
    /\ UNCHANGED <<dbVars, chainOpen, myAddress, LastHash, now, inflight>>
    /\ UNCHANGED <<netVars, runVars>>

\* APIServer.handleTransaction: s.Node.Chain.AddTransaction(&tx)
HandleTransaction == \E tx \in TxInputs : AddTransaction(tx)

----
(* AddBlock *)

\* the View transaction of AddBlock: lh, and the Index of the block it names
ViewLastHash == dbLh["lh"]
ViewLastHeight == BlockAt(ViewLastHash).Index

\* line `txs = append(txs, bc.Mempool...)`
IncorporateMempoolFirst(txs, mempool) == mempool \o txs

Incorporate(txs, mempool) == txs \o mempool

BuildBlockSameHeight(txs, lastHash, lastHeight, time) ==
    MineBlock(NewBlock(txs, lastHash, lastHeight, time))

\* NewBlock(txs, lastHash, lastHeight+1) followed by MineBlock
BuildBlock(txs, lastHash, lastHeight, time) ==
    MineBlock(NewBlock(txs, lastHash, lastHeight + 1, time))

\* the loop `for _, tx := range newBlock.Transactions` of the Update transaction
IndexTransactions(index, txs, hash) ==
    LET ids == { txs[i].ID : i \in 1..Len(txs) }
    IN  [id \in DOMAIN index \cup ids |-> IF id \in ids THEN hash ELSE index[id]]

\* what the Update transaction of AddBlock writes when it commits: the block,
\* lh and the tx_ entries become visible together
WriteBlock(newBlock) ==
    /\ dbBlocks' = (newBlock.Hash :> Serialize(newBlock)) @@ dbBlocks
    /\ dbLh' = ("lh" :> newBlock.Hash)
    /\ dbTxIndex' = IndexTransactions(dbTxIndex, newBlock.Transactions, newBlock.Hash)

\* the Update transaction of AddBlock, with bc.LastHash set inside it
CommitBlock(newBlock) ==
    /\ WriteBlock(newBlock)
    /\ LastHash' = newBlock.Hash

\* AddBlock(txs) run from call to return with no other goroutine in between
AddBlock(txs) ==
    /\ chainOpen
    /\ AllIdle
    /\ TipHeight < MaxHeight
    /\ LET newBlock == BuildBlock(Incorporate(txs, Mempool), ViewLastHash, ViewLastHeight, now)
       IN  /\ CommitBlock(newBlock)
           /\ lastOp' = [op |-> "AddBlock", txs |-> txs, block |-> newBlock]
    /\ Mempool' = <<>>
    /\ UNCHANGED <<chainOpen, myAddress, inflight>>
    /\ UNCHANGED netVars

\* the coinbase transaction of the miner loop
MinerCoinbase ==
    [From |-> "SYSTEM", To |-> myAddress, Amount |-> BlockReward, Timestamp |-> now,
     Signature |-> "", ID |-> "COINBASE_" \o ToString(now)]

\* one iteration of the mining loop of startFullNode, time.Sleep included;
\* the topic hands the block BroadcastBlock publishes to the node's own
\* subscription as well, as received from the node itself
MinerLoop ==
    /\ AddBlock(<<MinerCoinbase>>)
    /\ sub' = Append(sub, BlockMessage(Self, lastOp'.block))
    /\ now' = now + 1
    /\ UNCHANGED <<upload, cancelled, node>>

\* listenForBlocks on a message of another peer: n.Chain.AddBlock of no
\* transactions; the received block itself is only logged
ListenForBlocks ==
    /\ AddBlock(<<>>)
    /\ UNCHANGED now
    /\ UNCHANGED runVars

----
(* AddBlock as the goroutines run it: one step per access to shared state *)

\* the call, up to and including `txs = append(txs, bc.Mempool...)`
AddBlockRead(p, txs) ==
    /\ chainOpen
    /\ inflight[p].pc = "idle"
    /\ TipHeight + Cardinality({ q \in Procs : inflight[q].pc # "idle" }) < MaxHeight
    /\ inflight' = [inflight EXCEPT ![p] =
                        [pc |-> "read", arg |-> txs, txs |-> Incorporate(txs, Mempool),
                         newBlock |-> NoBlock]]
    /\ UNCHANGED <<dbVars, chainOpen, myAddress, LastHash, Mempool, now>>
    /\ lastOp' = [op |-> "AddBlockStep"]
    /\ UNCHANGED <<netVars, runVars>>

\* the View transaction, NewBlock and MineBlock
AddBlockMine(p) ==
    /\ inflight[p].pc = "read"
    /\ inflight' = [inflight EXCEPT ![p].pc = "mined",
                        ![p].newBlock = BuildBlock(inflight[p].txs, ViewLastHash,
                                                   ViewLastHeight, now)]
    /\ UNCHANGED <<dbVars, chainOpen, myAddress, LastHash, Mempool, now>>
    /\ lastOp' = [op |-> "AddBlockStep"]
    /\ UNCHANGED <<netVars, runVars>>

\* the closure of the Update transaction: its txn.Set calls are buffered in
\* the transaction, and `bc.LastHash = newBlock.Hash` writes the struct field
AddBlockUpdate(p) ==
    /\ inflight[p].pc = "mined"
    /\ LastHash' = inflight[p].newBlock.Hash
    /\ inflight' = [inflight EXCEPT ![p].pc = "update"]
    /\ UNCHANGED <<dbVars, chainOpen, myAddress, Mempool, now>>
    /\ lastOp' = [op |-> "AddBlockStep"]
    /\ UNCHANGED <<netVars, runVars>>

\* the commit of the Update transaction, after its closure returned
AddBlockCommit(p) ==
    /\ inflight[p].pc = "update"
    /\ WriteBlock(inflight[p].newBlock)
    /\ inflight' = [inflight EXCEPT ![p].pc = "committed"]
    /\ UNCHANGED <<chainOpen, myAddress, LastHash, Mempool, now>>
    /\ lastOp' = [op |-> "AddBlockStep"]
    /\ UNCHANGED <<netVars, runVars>>

\* line `bc.Mempool = []*Transaction{}` and the return; the miner then
\* broadcasts the block and sleeps
AddBlockReturn(p) ==
    /\ inflight[p].pc = "committed"
    /\ Mempool' = <<>>
    /\ lastOp' = [op |-> "AddBlock", txs |-> inflight[p].arg,
                  block |-> inflight[p].newBlock]
    /\ inflight' = [inflight EXCEPT ![p] = Idle]
    /\ now' = IF p = "miner" THEN now + 1 ELSE now
    /\ sub' = IF p = "miner" THEN Append(sub, BlockMessage(Self, inflight[p].newBlock))
              ELSE sub
    /\ UNCHANGED <<dbVars, chainOpen, myAddress, LastHash>>
    /\ UNCHANGED <<netVars, upload, cancelled, node>>

MinerStart == AddBlockRead("miner", <<MinerCoinbase>>)

GossipStart == AddBlockRead("gossip", <<>>)

AddBlockStep ==
    \E p \in Procs :
        AddBlockMine(p) \/ AddBlockUpdate(p) \/ AddBlockCommit(p) \/ AddBlockReturn(p)

----
(* Compute responder *)

PaymentVerifiedNoFee(txID) ==
    IF txID = "FREE_PASS" THEN TRUE
    ELSE FindTransaction(txID).err = ""

\* the PAYMENT VERIFICATION block of HandleComputeStream (n.Chain != nil)
PaymentVerified(txID) ==
    IF txID = "FREE_PASS" THEN TRUE
    ELSE LET found == FindTransaction(txID)
         IN  IF found.err # "" THEN FALSE
             ELSE IF found.tx.Amount < MinComputeFee THEN FALSE
             ELSE TRUE

\* transaction IDs a client sends in a Compute request
ComputeTxIDs == {"FREE_PASS", "unknown", "GENESIS_COINBASE"} \cup DOMAIN dbTxIndex

\* the stream handler on a request with txID; framesRead: the wasm and input
\* frames arrive whole (otherwise the handler returns on the read error)
HandleComputeStream(txID, framesRead) ==
    /\ chainOpen
    /\ lastOp' = [op |-> "Compute", txID |-> txID, framesRead |-> framesRead,
                  ran |-> PaymentVerified(txID) /\ framesRead]
    /\ UNCHANGED <<dbVars, chainOpen, myAddress, LastHash, Mempool, now, inflight>>
    /\ UNCHANGED <<netVars, runVars>>

\* complete requests for every txID, and one whose frames break off
ComputeRequest ==
    \/ \E txID \in ComputeTxIDs : HandleComputeStream(txID, TRUE)
    \/ HandleComputeStream("FREE_PASS", FALSE)

----
(* Specifications *)

Boot == \E minerAddress \in Addrs : InitBlockchain(minerAddress) /\ UNCHANGED <<netVars, runVars>>

\* every call runs from start to return before the next one starts
Next ==
    \/ Boot
    \/ Close
    \/ HandleTransaction
    \/ MinerLoop
    \/ ListenForBlocks

Spec == Init /\ [][Next]_vars

\* a node serving Compute requests while transactions arrive and blocks are added
NextCompute ==
    \/ Boot
    \/ HandleTransaction
    \/ ListenForBlocks
    \/ ComputeRequest

SpecCompute == Init /\ [][NextCompute]_vars

\* a full node (startFullNode): after setupNode the miner loop, the gossip
\* listener and the HTTP transaction handlers run concurrently on one chain
NextConc ==
    \/ Boot
    \/ HandleTransaction
    \/ MinerStart
    \/ GossipStart
    \/ AddBlockStep

SpecConc == Init /\ [][NextConc]_vars

\* request bodies of POST /api/v1/transaction: handleTransaction decodes any
\* JSON object into a Transaction, so Signature and ID are what the client
\* wrote: the signed transfer, the same transfer under another signature
\* (CalculateHash does not cover Signature), and a transfer whose ID is not
\* its hash
JsonTxInputs ==
    { ClientTx("A", "B", MinComputeFee, 1, "R|S"),
      ClientTx("A", "B", MinComputeFee, 1, "X|Y"),
      [ClientTx("A", "B", MinComputeFee - 1, 1, "R|S") EXCEPT !.ID = "feed"] }

\* APIServer.handleTransaction on an arbitrary body
PostTransaction == \E tx \in JsonTxInputs : AddTransaction(tx)

\* a mining node whose HTTP API receives arbitrary transaction bodies
NextApi ==
    \/ Boot
    \/ PostTransaction
    \/ MinerLoop

SpecApi == Init /\ [][NextApi]_vars

----
(* Erasure coding: ShardManager over reedsolomon.New(10, 4) *)

\* main.go: storage.NewShardManager(10, 4)
DataShards == 10
ParityShards == 4
TotalShards == DataShards + ParityShards

\* a file of n bytes; the bytes differ from each other and from the padding
FileBytes(n) == [i \in 1..n |-> i]

\* the files handed to Encode: every length from the empty file to MaxDataLen
DataInputs == { FileBytes(n) : n \in 0..MaxDataLen }

\* a missing shard (nil)
NilShard == <<>>

\* enc.Split: ErrShortData on empty data; otherwise the data is padded with
\* zeros to DataShards * perShard bytes and cut into DataShards slices, and
\* ParityShards zeroed slices of the same length follow
Split(data) ==
    IF Len(data) = 0 THEN [err |-> "not enough data to fill the number of requested shards",
                           shards |-> <<>>]
    ELSE LET perShard == (Len(data) + DataShards - 1) \div DataShards
             padded == [i \in 1..(TotalShards * perShard) |->
                            IF i <= Len(data) THEN data[i] ELSE 0]
         IN  [err |-> "",
              shards |-> [k \in 1..TotalShards |->
                              SubSeq(padded, (k - 1) * perShard + 1, k * perShard)]]

\* shardSize: the length of the first shard that is not empty, 0 without one
ShardSize(shards) ==
    LET full == { k \in 1..Len(shards) : Len(shards[k]) # 0 }
    IN  IF full = {} THEN 0
        ELSE Len(shards[CHOOSE k \in full : \A m \in full : k <= m])

\* checkShards
CheckShards(shards, nilok) ==
    LET size == ShardSize(shards)
    IN  IF size = 0 THEN "no shard data"
        ELSE IF \E k \in 1..Len(shards) :
                    Len(shards[k]) # size /\ (Len(shards[k]) # 0 \/ ~nilok)
             THEN "shard sizes do not match"
             ELSE ""

\* parity shard j of the data shards: byte c of it is a value determined by j
\* and by byte c of each of the DataShards data shards, and determines them
\* together with any DataShards - 1 other shards (the code is MDS)
ParityShard(j, shards) ==
    [c \in 1..Len(shards[1]) |-> <<j, [i \in 1..DataShards |-> shards[i][c]]>>]

\* enc.Encode: overwrites the parity shards
EncEncode(shards) ==
    IF Len(shards) # TotalShards THEN [err |-> "too few shards given", shards |-> shards]
    ELSE IF CheckShards(shards, FALSE) # ""
         THEN [err |-> CheckShards(shards, FALSE), shards |-> shards]
         ELSE [err |-> "",
               shards |-> [k \in 1..TotalShards |->
                               IF k <= DataShards THEN shards[k]
                               ELSE ParityShard(k - DataShards, shards)]]

\* enc.Verify
EncVerify(shards) ==
    IF Len(shards) # TotalShards THEN [ok |-> FALSE, err |-> "too few shards given"]
    ELSE IF CheckShards(shards, FALSE) # ""
         THEN [ok |-> FALSE, err |-> CheckShards(shards, FALSE)]
         ELSE [ok |-> \A j \in 1..ParityShards :
                          shards[DataShards + j] = ParityShard(j, shards),
               err |-> ""]

\* enc.Reconstruct: rebuilds every missing shard from the shards present
EncReconstruct(shards) ==
    IF Len(shards) # TotalShards THEN [err |-> "too few shards given", shards |-> shards]
    ELSE IF CheckShards(shards, TRUE) # ""
         THEN [err |-> CheckShards(shards, TRUE), shards |-> shards]
         ELSE LET present == { k \in 1..TotalShards : Len(shards[k]) # 0 }
                  size == ShardSize(shards)
                  parity == { k \in present : k > DataShards }
                  src == CHOOSE k \in parity : \A m \in parity : k <= m
                  data == [i \in 1..DataShards |->
                               IF i \in present THEN shards[i]
                               ELSE IF parity = {} THEN [c \in 1..size |-> 0]
                               ELSE [c \in 1..size |-> shards[src][c][2][i]]]
              IN  IF Cardinality(present) = TotalShards THEN [err |-> "", shards |-> shards]
                  ELSE IF Cardinality(present) < DataShards
                       THEN [err |-> "too few shards given", shards |-> shards]
                       ELSE [err |-> "",
                             shards |-> [k \in 1..TotalShards |->
                                             IF k \in present THEN shards[k]
                                             ELSE IF k <= DataShards THEN data[k]
                                             ELSE ParityShard(k - DataShards, data)]]

RECURSIVE Concat(_, _)
\* the first n of shards, written one after the other
Concat(shards, n) == IF n = 0 THEN <<>> ELSE Concat(shards, n - 1) \o shards[n]

RECURSIVE EnoughAt(_, _, _, _)
\* the first loop of enc.Join from data shard k on, with `size` bytes counted:
\* "" when outSize bytes are there, otherwise the error
EnoughAt(shards, k, size, outSize) ==
    IF k > DataShards
    THEN (IF size < outSize THEN "not enough data to fill the number of requested shards" ELSE "")
    ELSE IF Len(shards[k]) = 0 THEN "reconstruction required as one or more required data shards are nil"
    ELSE IF size + Len(shards[k]) >= outSize THEN ""
    ELSE EnoughAt(shards, k + 1, size + Len(shards[k]), outSize)

\* enc.Join: the first outSize bytes of the data shards
Join(shards, outSize) ==
    IF Len(shards) < DataShards THEN [err |-> "too few shards given", out |-> <<>>]
    ELSE IF EnoughAt(shards, 1, 0, outSize) # ""
         THEN [err |-> EnoughAt(shards, 1, 0, outSize), out |-> <<>>]
         ELSE [err |-> "", out |-> SubSeq(Concat(shards, DataShards), 1, outSize)]

EncodeNoParity(data) ==
    LET split == Split(data)
    IN  IF split.err # "" THEN [err |-> split.err, shards |-> <<>>]
        ELSE [err |-> "",
              shards |-> [k \in 1..TotalShards |->
                              IF k <= DataShards THEN split.shards[k]
                              ELSE ParityShard(k - DataShards,
                                               [i \in 1..DataShards |-> split.shards[TotalShards]])]]

\* ShardManager.Encode
Encode(data) ==
    LET split == Split(data)
    IN  IF split.err # "" THEN [err |-> split.err, shards |-> <<>>]
        ELSE LET enc == EncEncode(split.shards)
             IN  IF enc.err # "" THEN [err |-> enc.err, shards |-> <<>>]
                 ELSE [err |-> "", shards |-> enc.shards]

ReconstructNoErrorReturn(shards, originalSize) ==
    LET v == EncVerify(shards)
        rebuilt == IF ~v.ok \/ v.err # "" THEN EncReconstruct(shards).shards ELSE shards
        joined == Join(rebuilt, originalSize)
    IN  IF joined.err # "" THEN [err |-> joined.err, out |-> <<>>]
        ELSE [err |-> "", out |-> joined.out]

\* ShardManager.Reconstruct; out is <<>> (nil) with an error
Reconstruct(shards, originalSize) ==
    LET v == EncVerify(shards)
        r == EncReconstruct(shards)
        needed == ~v.ok \/ v.err # ""
        rebuilt == IF needed THEN r.shards ELSE shards
        joined == Join(rebuilt, originalSize)
    IN  IF needed /\ r.err # ""
        THEN [err |-> "reconstruction failed (not enough shards?): " \o r.err, out |-> <<>>]
        ELSE IF needed /\ (~EncVerify(rebuilt).ok \/ EncVerify(rebuilt).err # "")
        THEN [err |-> "shards are still invalid after reconstruction: " \o EncVerify(rebuilt).err,
              out |-> <<>>]
        ELSE IF joined.err # "" THEN [err |-> joined.err, out |-> <<>>]
        ELSE [err |-> "", out |-> joined.out]

\* Encode as the upload calls it; the shards then lie with the peers
EncodeCall(data) ==
    /\ download = NoDownload
    /\ lastOp' = [op |-> "Encode", data |-> data, shards |-> Encode(data).shards,
                  err |-> Encode(data).err]
    /\ download' = IF Encode(data).err # "" THEN NoDownload
                   ELSE [data |-> data, encoded |-> Encode(data).shards, shards |-> <<>>]
    /\ UNCHANGED <<dbVars, chainOpen, myAddress, LastHash, Mempool, now, inflight>>
    /\ UNCHANGED <<storeHandler, retrieveHandler, dht, vault, diskOk, stream, pending, providers>>
    /\ UNCHANGED runVars

\* one round of the loop `for i := 0; i < 14; i++` of a download: shard i is
\* obtained (shards[i] = data) or its slot stays nil
CollectShard(found) ==
    /\ download # NoDownload
    /\ Len(download.shards) < TotalShards
    /\ download' = [download EXCEPT !.shards =
                        Append(@, IF found THEN download.encoded[Len(@) + 1] ELSE NilShard)]
    /\ lastOp' = [op |-> "CollectShard"]
    /\ UNCHANGED <<dbVars, chainOpen, myAddress, LastHash, Mempool, now, inflight>>
    /\ UNCHANGED <<storeHandler, retrieveHandler, dht, vault, diskOk, stream, pending, providers>>
    /\ UNCHANGED runVars

\* sm.Reconstruct(shards, *size) after the loop, with the size of the file;
\* the download ends with it
ReconstructCall ==
    /\ download # NoDownload
    /\ Len(download.shards) = TotalShards
    /\ lastOp.op = "CollectShard"
    /\ LET res == Reconstruct(download.shards, Len(download.data))
       IN  lastOp' = [op |-> "Reconstruct", data |-> download.data,
                      present |-> { k \in 1..TotalShards : download.shards[k] # NilShard },
                      out |-> res.out, err |-> res.err]
    /\ UNCHANGED download
    /\ UNCHANGED <<dbVars, chainOpen, myAddress, LastHash, Mempool, now, inflight>>
    /\ UNCHANGED <<storeHandler, retrieveHandler, dht, vault, diskOk, stream, pending, providers>>
    /\ UNCHANGED runVars

EncodeFile == \E data \in DataInputs : EncodeCall(data)

CollectShards == \E found \in BOOLEAN : CollectShard(found)

\* the shard codec on its own: a file is encoded, any of its shards are
\* collected again, and Reconstruct is called on them
NextShard ==
    \/ EncodeFile
    \/ CollectShards
    \/ ReconstructCall

SpecShard == Init /\ [][NextShard]_vars

----
(* Store and Retrieve protocols (p2p/protocol.go) on one storage peer *)

\* keys and values clients store: "k" and "k2"; no byte, one byte, two bytes
Keys == {<<107>>, <<107, 50>>}
Blobs == {<<>>, <<7>>, <<7, 8>>}

\* binary.Write(w, binary.BigEndian, uint32(n)); the lengths of the model are
\* far below 2^32, where uint32(n) = n
BE32(n) == <<(n \div 16777216) % 256, (n \div 65536) % 256, (n \div 256) % 256, n % 256>>

\* binary.Read(r, binary.BigEndian, &u32) on the four bytes b
U32(b) == b[1] * 16777216 + b[2] * 65536 + b[3] * 256 + b[4]

\* what SendStoreReq writes before it waits for the acknowledgement
StoreRequest(key, data) == BE32(Len(key)) \o key \o BE32(Len(data)) \o data

\* what SendRetrieveReq writes before it waits for the status
RetrieveRequest(key) == BE32(Len(key)) \o key

\* binary.Read of a length and io.ReadFull of that many bytes, from offset
\* `from` of the bytes that arrived; ok is FALSE on a short read
ReadFrame(bytes, from) ==
    IF from + 4 > Len(bytes) THEN [ok |-> FALSE, body |-> <<>>, next |-> from]
    ELSE LET n == U32(SubSeq(bytes, from + 1, from + 4))
         IN  IF from + 4 + n > Len(bytes) THEN [ok |-> FALSE, body |-> <<>>, next |-> from]
             ELSE [ok |-> TRUE, body |-> SubSeq(bytes, from + 5, from + 4 + n),
                   next |-> from + 4 + n]

\* steps 1-4 of the Store handler
ReadStoreRequest(bytes) ==
    LET k == ReadFrame(bytes, 0)
        d == ReadFrame(bytes, k.next)
    IN  [ok |-> k.ok /\ d.ok, key |-> k.body, data |-> d.body,
         next |-> IF k.ok /\ d.ok THEN d.next ELSE k.next]

\* Vault.Store: db.Update(txn.Set(key, data))
VaultStore(key, data) == (key :> data) @@ vault

\* step 5 of the Store handler: the status for handler argument v
StoreStatus(v) == IF v # "nil" /\ ~diskOk THEN 1 ELSE 0

RetrieveResponseNoLength(v, key) ==
    IF v = "nil" \/ key \notin DOMAIN vault THEN <<1>>
    ELSE <<0>> \o vault[key]

\* steps 3-4 of the Retrieve handler: what it writes for handler argument v
RetrieveResponse(v, key) ==
    IF v = "nil" \/ key \notin DOMAIN vault THEN <<1>>
    ELSE <<0>> \o BE32(Len(vault[key])) \o vault[key]

\* steps 2-4 of SendRetrieveReq on the bytes the peer wrote
ReadRetrieveResponse(resp) ==
    IF Len(resp) < 1 THEN [err |-> "EOF", data |-> <<>>]
    ELSE IF resp[1] # 0 THEN [err |-> "peer returned error status (file not found?)",
                               data |-> <<>>]
    ELSE LET d == ReadFrame(resp, 1)
         IN  IF ~d.ok THEN [err |-> "unexpected EOF", data |-> <<>>]
             ELSE [err |-> "", data |-> d.body]

chainVars == <<dbVars, chainOpen, myAddress, LastHash, Mempool, now, inflight>>

\* n.HandleStoreStream(v): v is a Vault or nil
HandleStoreStream(v) ==
    /\ storeHandler = "none"
    /\ storeHandler' = v
    /\ lastOp' = [op |-> "HandleStoreStream"]
    /\ UNCHANGED <<chainVars, runVars, retrieveHandler, dht, vault, diskOk, stream, pending,
                   providers, download>>

\* n.HandleRetrieveStream(v)
HandleRetrieveStream(v) ==
    /\ retrieveHandler = "none"
    /\ retrieveHandler' = v
    /\ lastOp' = [op |-> "HandleRetrieveStream"]
    /\ UNCHANGED <<chainVars, runVars, storeHandler, dht, vault, diskOk, stream, pending,
                   providers, download>>

\* n.EnableDHT
EnableDHT ==
    /\ ~dht
    /\ dht' = TRUE
    /\ lastOp' = [op |-> "EnableDHT"]
    /\ UNCHANGED <<chainVars, runVars, storeHandler, retrieveHandler, vault, diskOk, stream,
                   pending, providers, download>>

\* the peer's disk starts or stops failing writes
DiskEvent ==
    /\ diskOk' = ~diskOk
    /\ lastOp' = [op |-> "DiskEvent"]
    /\ UNCHANGED <<chainVars, runVars, storeHandler, retrieveHandler, dht, vault, stream,
                   pending, providers, download>>

\* SendStoreReq up to the Flush: NewStream fails when the peer has no handler
\* for the protocol; `arrived` bytes of the request reach the peer
SendStoreReqWrite(key, data, arrived) ==
    /\ stream = NoStream
    /\ IF storeHandler = "none"
       THEN /\ lastOp' = [op |-> "SendStoreReq", key |-> key, data |-> data,
                          whole |-> FALSE, err |-> "failed to open stream"]
            /\ UNCHANGED stream
       ELSE /\ stream' = [proto |-> "store", key |-> key, data |-> data,
                          in |-> SubSeq(StoreRequest(key, data), 1, arrived),
                          pc |-> "sent", status |-> 0, wrote |-> FALSE, out |-> <<>>,
                          got |-> <<>>, read |-> 0]
            /\ lastOp' = [op |-> "StreamStep"]
    /\ UNCHANGED <<chainVars, runVars, storeHandler, retrieveHandler, dht, vault, diskOk,
                   pending, providers, download>>

\* the Store handler, steps 1-5: read the frames, store, start the announcement
AnnouncesUnstored(written) == dht

\* step 5 of the store handler: `go n.DHT.Announce(string(key))` only in the
\* branch where v.Store returned nil, and only with n.DHT set
AnnouncesStored(written) == written /\ dht

StoreHandlerStore ==
    /\ stream.proto = "store"
    /\ stream.pc = "sent"
    /\ LET req == ReadStoreRequest(stream.in)
           written == req.ok /\ storeHandler # "nil" /\ diskOk
       IN  /\ stream' = [stream EXCEPT !.pc = IF req.ok THEN "stored" ELSE "closed",
                                       !.status = StoreStatus(storeHandler),
                                       !.wrote = written,
                                       !.got = IF req.ok THEN <<req.key, req.data>> ELSE <<>>,
                                       !.read = req.next]
           /\ vault' = IF written THEN VaultStore(req.key, req.data) ELSE vault
           /\ pending' = IF AnnouncesStored(written) THEN pending \cup {req.key} ELSE pending
    /\ lastOp' = [op |-> "StreamStep"]
    /\ UNCHANGED <<chainVars, runVars, storeHandler, retrieveHandler, dht, diskOk, providers,
                   download>>

\* the Store handler, step 6: s.Write([]byte{status})
StoreHandlerAck ==
    /\ stream.proto = "store"
    /\ stream.pc = "stored"
    /\ stream' = [stream EXCEPT !.pc = "closed", !.out = <<stream.status>>]
    /\ lastOp' = [op |-> "StreamStep"]
    /\ UNCHANGED <<chainVars, runVars, storeHandler, retrieveHandler, dht, vault, diskOk,
                   pending, providers, download>>

\* SendStoreReq, step 5 and the return
SendStoreReqReturn ==
    /\ stream.proto = "store"
    /\ stream.pc = "closed"
    /\ lastOp' = [op |-> "SendStoreReq", key |-> stream.key, data |-> stream.data,
                  whole |-> stream.in = StoreRequest(stream.key, stream.data),
                  err |-> IF stream.out = <<>> THEN "failed to read ACK"
                          ELSE IF stream.out[1] # 0 THEN "peer returned error status"
                          ELSE ""]
    /\ stream' = NoStream
    /\ UNCHANGED <<chainVars, runVars, storeHandler, retrieveHandler, dht, vault, diskOk,
                   pending, providers, download>>

\* the goroutine `go func() { n.DHT.Announce(string(key)) }()`; Provide may fail
Announce(key, ok) ==
    /\ key \in pending
    /\ pending' = pending \ {key}
    /\ providers' = IF ok THEN providers \cup {key} ELSE providers
    /\ lastOp' = [op |-> "Announce"]
    /\ UNCHANGED <<chainVars, runVars, storeHandler, retrieveHandler, dht, vault, diskOk,
                   stream, download>>

\* SendRetrieveReq, step 1
SendRetrieveReqWrite(key, arrived) ==
    /\ stream = NoStream
    /\ IF retrieveHandler = "none"
       THEN /\ lastOp' = [op |-> "SendRetrieveReq", key |-> key, whole |-> FALSE,
                          data |-> <<>>, err |-> "failed to open stream"]
            /\ UNCHANGED stream
       ELSE /\ stream' = [proto |-> "retrieve", key |-> key, data |-> <<>>,
                          in |-> SubSeq(RetrieveRequest(key), 1, arrived),
                          pc |-> "sent", status |-> 0, wrote |-> FALSE, out |-> <<>>,
                          got |-> <<>>, read |-> 0]
            /\ lastOp' = [op |-> "StreamStep"]
    /\ UNCHANGED <<chainVars, runVars, storeHandler, retrieveHandler, dht, vault, diskOk,
                   pending, providers, download>>

\* the Retrieve handler
RetrieveHandler ==
    /\ stream.proto = "retrieve"
    /\ stream.pc = "sent"
    /\ LET req == ReadFrame(stream.in, 0)
       IN  stream' = [stream EXCEPT !.pc = "closed",
                          !.out = IF req.ok THEN RetrieveResponse(retrieveHandler, req.body)
                                  ELSE <<>>,
                          !.got = IF req.ok THEN <<req.body>> ELSE <<>>,
                          !.read = req.next]
    /\ lastOp' = [op |-> "StreamStep"]
    /\ UNCHANGED <<chainVars, runVars, storeHandler, retrieveHandler, dht, vault, diskOk,
                   pending, providers, download>>

\* SendRetrieveReq, steps 2-4 and the return
SendRetrieveReqReturn ==
    /\ stream.proto = "retrieve"
    /\ stream.pc = "closed"
    /\ lastOp' = [op |-> "SendRetrieveReq", key |-> stream.key,
                  whole |-> stream.in = RetrieveRequest(stream.key),
                  sent |-> stream.out,
                  data |-> ReadRetrieveResponse(stream.out).data,
                  err |-> ReadRetrieveResponse(stream.out).err]
    /\ stream' = NoStream
    /\ UNCHANGED <<chainVars, runVars, storeHandler, retrieveHandler, dht, vault, diskOk,
                   pending, providers, download>>

RegisterHandlers ==
    \E v \in {"nil", "vault"} : HandleStoreStream(v) \/ HandleRetrieveStream(v)

StoreClient ==
    \E key \in Keys, data \in Blobs :
        \E arrived \in 0..Len(StoreRequest(key, data)) : SendStoreReqWrite(key, data, arrived)

RetrieveClient ==
    \E key \in Keys :
        \E arrived \in 0..Len(RetrieveRequest(key)) : SendRetrieveReqWrite(key, arrived)

AnnounceStep == \E key \in pending, ok \in BOOLEAN : Announce(key, ok)

\* a peer with the Store and Retrieve handlers registered, with or without a
\* Vault, serving one stream at a time
NextProto ==
    \/ RegisterHandlers
    \/ EnableDHT
    \/ DiskEvent
    \/ StoreClient
    \/ StoreHandlerStore
    \/ StoreHandlerAck
    \/ SendStoreReqReturn
    \/ AnnounceStep
    \/ RetrieveClient
    \/ RetrieveHandler
    \/ SendRetrieveReqReturn

SpecProto == Init /\ [][NextProto]_vars

----
(* A storage node brought up by setupNode, an upload client and a download client *)

\* the files a client uploads: one byte, and two bytes per data shard
UploadFiles == { FileBytes(1), FileBytes(MaxDataLen) }

\* the name of the uploaded file: "f"
FileName == <<102>>

\* strconv of a shard number below 100
Itoa(i) == IF i < 10 THEN <<48 + i>> ELSE <<48 + (i \div 10), 48 + (i % 10)>>

\* fmt.Sprintf("%s-shard-%d", file, i)
ShardKey(file, i) == file \o <<45, 115, 104, 97, 114, 100, 45>> \o Itoa(i)

ShardKeys(file) == { ShardKey(file, i) : i \in 0..(TotalShards - 1) }

\* setupNode: the chain, the Vault, the node, `node.HandleStoreStream(vault)`
\* and `node.EnableDHT`; it registers no handler for RetrieveProtocol
SetupNode ==
    \E minerAddress \in Addrs :
        /\ InitBlockchain(minerAddress)
        /\ storeHandler' = "vault"
        /\ dht' = TRUE
        /\ UNCHANGED <<retrieveHandler, vault, diskOk, stream, pending, providers, download>>
        /\ UNCHANGED runVars

\* what the peer's Store handler makes of SendStoreReq(key, data), the whole
\* request arriving: the key and data it reads and the status it answers
StoreExchange(key, data) ==
    LET req == ReadStoreRequest(StoreRequest(key, data))
    IN  [key |-> req.key, data |-> req.data, status |-> StoreStatus(storeHandler),
         wrote |-> req.ok /\ storeHandler # "nil" /\ diskOk]

\* handleUploadCmd: Encode, then SendStoreReq of shard i under
\* "<file>-shard-<i>" to the one connected peer, which stores and acknowledges
\* each before the next is sent
Upload(data) ==
    /\ storeHandler # "none"
    /\ stream = NoStream
    /\ vault = <<>>
    /\ Encode(data).err = ""
    /\ LET shards == Encode(data).shards
           sent == [i \in 0..(TotalShards - 1) |->
                        StoreExchange(ShardKey(FileName, i), shards[i + 1])]
           stored == { i \in DOMAIN sent : sent[i].wrote }
       IN  /\ vault' = [k \in DOMAIN vault \cup { sent[i].key : i \in stored } |->
                            IF \E i \in stored : sent[i].key = k
                            THEN sent[CHOOSE i \in stored : sent[i].key = k].data
                            ELSE vault[k]]
           /\ pending' = IF dht THEN pending \cup { sent[i].key : i \in stored } ELSE pending
           /\ lastOp' = [op |-> "Upload", size |-> Len(data),
                         acked |-> Cardinality({ i \in DOMAIN sent : sent[i].status = 0 })]
    /\ UNCHANGED <<chainVars, runVars, storeHandler, retrieveHandler, dht, diskOk, stream,
                   providers, download>>

\* handleDownloadCmd of main.go: for each shard, DHT.FindProviders; a shard
\* with a provider is counted and not fetched; nothing is reconstructed
Download(size) ==
    /\ LET foundCount == Cardinality({ i \in 0..(TotalShards - 1) :
                                          ShardKey(FileName, i) \in providers })
       IN  lastOp' = [op |-> "Download", size |-> size, foundCount |-> foundCount,
                      log |-> IF foundCount < DataShards THEN "Cannot reconstruct."
                              ELSE "Found all shards! (Retrieval logic pending implementation).",
                      out |-> <<>>]
    /\ UNCHANGED <<chainVars, netVars, runVars>>

UploadFile == \E data \in UploadFiles : Upload(data)

AnnounceShard == \E key \in pending : Announce(key, TRUE)

\* a second node asks the storage node for a shard it holds
RetrieveShard ==
    \E i \in {0, TotalShards - 1} :
        /\ ShardKey(FileName, i) \in DOMAIN vault
        /\ SendRetrieveReqWrite(ShardKey(FileName, i),
                                Len(RetrieveRequest(ShardKey(FileName, i))))

DownloadFile == \E data \in UploadFiles : Download(Len(data))

\* the network of main.go: a node from setupNode, the upload command and the
\* download command
NextNode ==
    \/ SetupNode
    \/ UploadFile
    \/ AnnounceShard
    \/ RetrieveShard
    \/ DownloadFile

SpecNode == Init /\ [][NextNode]_vars

----
(* Upload: handleUpload of the HTTP gateway and handleUploadCmd of the CLI *)

\* Host.Network().Peers(): the connected peers, in the order the call returns
PeerLists == {<<>>, <<"P1">>, <<"P2">>, <<"P1", "P2">>, <<"P2", "P1">>}

\* "api": POST /api/v1/upload; "cli": the upload command
UploadEntries == {"api", "cli"}

\* the file bodies an upload is given: empty, and two bytes per data shard
UploadBodies == { FileBytes(0), FileBytes(MaxDataLen) }

\* the list the dispatch loop indexes: handleUpload appends the node's own ID
\* to the connected peers, handleUploadCmd takes the connected peers alone
Destinations(entry, peers) == IF entry = "api" THEN Append(peers, Self) ELSE peers

DispatchTargetFirst(dest, i) == dest[1]

\* allNodes[i%len(allNodes)], peers[i%len(peers)]
DispatchTarget(dest, i) == dest[(i % Len(dest)) + 1]

AfterShardStopOnError(i, ok) == IF ok THEN i + 1 ELSE TotalShards

\* the loop variable after shard i was handled, whether or not it was stored
AfterShard(i, ok) == i + 1

\* io.ReadAll / os.ReadFile and sm.Encode(data); a failed Encode ends the
\* upload (HTTP 500, log.Fatalf)
UploadEncode(entry, data) ==
    /\ upload = NoUpload
    /\ entry = "api" => storeHandler # "none"
    /\ LET enc == Encode(data)
       IN  upload' = [state |-> IF enc.err = "" THEN "sharded" ELSE "failed",
                      entry |-> entry, shards |-> enc.shards, peers |-> <<>>,
                      dest |-> <<>>, i |-> 0, storedCount |-> 0]
    /\ lastOp' = [op |-> "UploadEncode", entry |-> entry, size |-> Len(data)]
    /\ UNCHANGED <<chainVars, netVars, sub, cancelled, node>>

\* Host.Network().Peers() and the destination list; the CLI stops with
\* "No peers found! Cannot upload." when no peer is connected
UploadPeers(peers) ==
    /\ upload.state = "sharded"
    /\ LET dest == Destinations(upload.entry, peers)
       IN  upload' = [upload EXCEPT !.peers = peers, !.dest = dest,
                          !.state = IF upload.entry = "cli" /\ Len(peers) = 0
                                    THEN "aborted" ELSE "dispatching"]
    /\ lastOp' = [op |-> "UploadPeers"]
    /\ UNCHANGED <<chainVars, netVars, sub, cancelled, node>>

\* one iteration of the dispatch loop; sent: SendStoreReq returned nil
DispatchShard(sent) ==
    /\ upload.state = "dispatching"
    /\ upload.i < TotalShards
    /\ LET i == upload.i
           targetPeer == DispatchTarget(upload.dest, i)
           key == ShardKey(FileName, i)
           shard == upload.shards[i + 1]
           local == upload.entry = "api" /\ targetPeer = Self
           ok == IF local THEN diskOk ELSE sent
       IN  /\ vault' = IF local /\ diskOk THEN VaultStore(key, shard) ELSE vault
           /\ pending' = IF local /\ diskOk /\ dht THEN pending \cup {key} ELSE pending
           /\ upload' = [upload EXCEPT !.i = AfterShard(i, ok),
                             !.storedCount = IF upload.entry = "api" /\ ok
                                             THEN @ + 1 ELSE @]
           /\ lastOp' = [op |-> "DispatchShard", entry |-> upload.entry, i |-> i,
                         key |-> key, targetPeer |-> targetPeer,
                         vaultStore |-> IF local THEN 1 ELSE 0,
                         announce |-> IF local /\ diskOk /\ dht THEN 1 ELSE 0,
                         storeReq |-> IF local THEN 0 ELSE 1,
                         ok |-> ok]
    /\ UNCHANGED <<chainVars, storeHandler, retrieveHandler, dht, diskOk, stream,
                   providers, download, sub, cancelled, node>>

\* the end of the loop: the JSON answer of handleUpload, "Upload Complete!"
UploadComplete ==
    /\ upload.state = "dispatching"
    /\ upload.i >= TotalShards
    /\ upload' = [upload EXCEPT !.state = "complete"]
    /\ lastOp' = [op |-> "UploadComplete", shards_created |-> Len(upload.shards),
                  shards_stored |-> upload.storedCount,
                  nodes_involved |-> Len(upload.dest)]
    /\ UNCHANGED <<chainVars, netVars, sub, cancelled, node>>

UploadBegin == \E entry \in UploadEntries, data \in UploadBodies : UploadEncode(entry, data)

UploadReadPeers == \E peers \in PeerLists : UploadPeers(peers)

DispatchStep == \E sent \in BOOLEAN : DispatchShard(sent)

\* a node from setupNode with its HTTP gateway, and the upload command run
\* against it; the disk of the node may fail at any time
NextUpload ==
    \/ SetupNode
    \/ DiskEvent
    \/ UploadBegin
    \/ UploadReadPeers
    \/ DispatchStep
    \/ UploadComplete

SpecUpload == Init /\ [][NextUpload]_vars

\* every step of an upload ends: Peers() is a local call, Vault.Store returns,
\* and SendStoreReq returns at its 30 s stream deadline at the latest
SpecUploadLive ==
    /\ SpecUpload
    /\ WF_vars(UploadReadPeers)
    /\ WF_vars(DispatchStep)
    /\ WF_vars(UploadComplete)

----
(* The Compute protocol: SendComputeReq, the stream handler and VM.Run *)

\* ComputeTimeout (30 s), in clock ticks of 15 s
ComputeTimeout == 2

\* []byte(txID): one byte per character
Chars(s) == [k \in 1..Len(s) |-> SubSeq(s, k, k)]

RECURSIVE Str(_)
\* string(txIDBytes)
Str(bytes) == IF Len(bytes) = 0 THEN "" ELSE Head(bytes) \o Str(Tail(bytes))

\* WebAssembly binaries a client submits: bytes that are no module, a module
\* that copies stdin to stdout, one that traps, and one that loops for ever
WasmInvalid == <<9>>
WasmEcho == <<0, 1>>
WasmTrap == <<0, 2>>
WasmLoop == <<0, 3>>

\* VM.Run: CompileModule fails, InstantiateModule runs _start and returns the
\* captured stdout or an error, or does not return while the module runs
VMRun(wasmCode, inputData) ==
    IF wasmCode = WasmEcho THEN [returns |-> TRUE, out |-> inputData, err |-> ""]
    ELSE IF wasmCode = WasmTrap
         THEN [returns |-> TRUE, out |-> <<>>,
               err |-> "runtime error: wasm error: unreachable (stderr: )"]
    ELSE IF wasmCode = WasmLoop THEN [returns |-> FALSE, out |-> <<>>, err |-> ""]
    ELSE [returns |-> TRUE, out |-> <<>>, err |-> "failed to compile wasm: invalid magic number"]

\* the jobs clients submit: wasm and input
ComputeJobs ==
    { <<WasmEcho, <<104, 105>>>>, <<WasmTrap, <<>>>>, <<WasmInvalid, <<104>>>>,
      <<WasmLoop, <<>>>> }

ComputeRequestBytesInputFirst(txID, wasm, input) ==
    BE32(Len(txID)) \o Chars(txID) \o BE32(Len(input)) \o input \o BE32(Len(wasm)) \o wasm

\* steps 0-2 of SendComputeReq: what it writes before the Flush
ComputeRequestBytes(txID, wasm, input) ==
    BE32(Len(txID)) \o Chars(txID) \o BE32(Len(wasm)) \o wasm \o BE32(Len(input)) \o input

\* steps 1-2 of the handler, from the offset where the txId frame ended
ReadComputeBody(bytes, from) ==
    LET w == ReadFrame(bytes, from)
        d == ReadFrame(bytes, w.next)
    IN  [ok |-> w.ok /\ d.ok, wasm |-> w.body, input |-> d.body,
         next |-> IF w.ok /\ d.ok THEN d.next ELSE w.next]

ComputeOutputNoPrefix(run) == IF run.err # "" THEN Chars(run.err) ELSE run.out

\* step 4 of the handler: the output, or fmt.Sprintf("ERROR: %v", err)
ComputeOutput(run) == IF run.err # "" THEN Chars("ERROR: " \o run.err) ELSE run.out

ComputeReplyOnReject(paid, output) == BE32(Len(output)) \o output

\* what the handler writes on the stream before it returns: nothing when the
\* payment was refused, else the length of the output and the output
ComputeReply(paid, output) == IF paid THEN BE32(Len(output)) \o output ELSE <<>>

\* step 3 of SendComputeReq on the bytes the peer wrote before it closed
ReadComputeResult(resp) ==
    LET r == ReadFrame(resp, 0)
    IN  IF Len(resp) < 4 THEN [err |-> "failed to read result length", output |-> <<>>]
        ELSE IF ~r.ok THEN [err |-> "failed to read result data", output |-> <<>>]
        ELSE [err |-> "", output |-> r.body]

\* how much of a request reaches the peer: nothing, half a length, the txId
\* frame, all but the last byte, all of it
CutPoints(txID, request) == {0, 2, 4 + Len(txID), Len(request) - 1, Len(request)}

\* SendComputeReq up to the Flush; NewStream fails on a peer that has not run
\* setupNode (no handler for ComputeProtocol)
SendComputeReqWrite(txID, wasm, input, arrived) ==
    /\ stream = NoStream
    /\ IF ~chainOpen
       THEN /\ lastOp' = [op |-> "SendComputeReq", txID |-> txID, whole |-> FALSE,
                          pc |-> "none",
                          paid |-> FALSE, reply |-> <<>>, output |-> <<>>,
                          err |-> "failed to open stream"]
            /\ UNCHANGED stream
       ELSE /\ stream' = [proto |-> "compute", txID |-> txID, wasm |-> wasm,
                          input |-> input,
                          in |-> SubSeq(ComputeRequestBytes(txID, wasm, input), 1, arrived),
                          pc |-> "opened", elapsed |-> 0, read |-> 0, paid |-> FALSE,
                          got |-> <<>>, out |-> <<>>, client |-> "waiting"]
            /\ lastOp' = [op |-> "StreamStep"]
    /\ UNCHANGED <<chainVars, runVars, storeHandler, retrieveHandler, dht, vault, diskOk,
                   pending, providers, download>>

\* the handler, step 0 and the payment verification (n.Chain is set)
ComputeHeader ==
    /\ stream.proto = "compute"
    /\ stream.pc = "opened"
    /\ LET id == ReadFrame(stream.in, 0)
       IN  /\ id.ok
           /\ LET paid == PaymentVerified(Str(id.body))
              IN  stream' = [stream EXCEPT !.read = id.next, !.paid = paid,
                                 !.got = <<Str(id.body)>>,
                                 !.pc = IF paid THEN "header-read" ELSE "closed",
                                 !.out = ComputeReply(paid, <<>>)]
    /\ lastOp' = [op |-> "StreamStep"]
    /\ UNCHANGED <<chainVars, runVars, storeHandler, retrieveHandler, dht, vault, diskOk,
                   pending, providers, download>>

\* the handler, steps 1 and 2
ComputeBody ==
    /\ stream.proto = "compute"
    /\ stream.pc = "header-read"
    /\ LET body == ReadComputeBody(stream.in, stream.read)
       IN  /\ body.ok
           /\ stream' = [stream EXCEPT !.read = body.next, !.pc = "body-read",
                             !.got = stream.got \o <<body.wasm, body.input>>]
    /\ lastOp' = [op |-> "StreamStep"]
    /\ UNCHANGED <<chainVars, runVars, storeHandler, retrieveHandler, dht, vault, diskOk,
                   pending, providers, download>>

\* a binary.Read or io.ReadFull of the handler that waits for bytes the peer
\* withholds fails when the deadline of s.SetDeadline passes
ComputeReadDeadline ==
    /\ stream.proto = "compute"
    /\ \/ stream.pc = "opened" /\ ~ReadFrame(stream.in, 0).ok
       \/ stream.pc = "header-read" /\ ~ReadComputeBody(stream.in, stream.read).ok
    /\ stream.elapsed >= ComputeTimeout
    /\ stream' = [stream EXCEPT !.pc = "aborted"]
    /\ lastOp' = [op |-> "StreamStep"]
    /\ UNCHANGED <<chainVars, runVars, storeHandler, retrieveHandler, dht, vault, diskOk,
                   pending, providers, download>>

\* the handler, step 3: the call of vm.Run
ComputeExecute ==
    /\ stream.proto = "compute"
    /\ stream.pc = "body-read"
    /\ stream' = [stream EXCEPT !.pc = "executing"]
    /\ lastOp' = [op |-> "StreamStep"]
    /\ UNCHANGED <<chainVars, runVars, storeHandler, retrieveHandler, dht, vault, diskOk,
                   pending, providers, download>>

\* vm.Run returns, and the handler's step 4: the reply, Flush and s.Close
ComputeRespond ==
    /\ stream.proto = "compute"
    /\ stream.pc = "executing"
    /\ LET run == VMRun(stream.got[2], stream.got[3])
       IN  /\ run.returns
           /\ stream' = [stream EXCEPT !.pc = "closed",
                             !.out = ComputeReply(stream.paid, ComputeOutput(run))]
    /\ lastOp' = [op |-> "StreamStep"]
    /\ UNCHANGED <<chainVars, runVars, storeHandler, retrieveHandler, dht, vault, diskOk,
                   pending, providers, download>>

\* time passes while the handler waits for bytes or for vm.Run; a wait for
\* bytes ends at the deadline
ComputeTick ==
    /\ stream.proto = "compute"
    /\ \/ /\ stream.pc = "opened" /\ ~ReadFrame(stream.in, 0).ok
          /\ stream.elapsed < ComputeTimeout
       \/ /\ stream.pc = "header-read" /\ ~ReadComputeBody(stream.in, stream.read).ok
          /\ stream.elapsed < ComputeTimeout
       \/ /\ stream.pc = "executing" /\ ~VMRun(stream.got[2], stream.got[3]).returns
          /\ stream.elapsed <= ComputeTimeout
    /\ stream' = [stream EXCEPT !.elapsed = @ + 1]
    /\ lastOp' = [op |-> "StreamStep"]
    /\ UNCHANGED <<chainVars, runVars, storeHandler, retrieveHandler, dht, vault, diskOk,
                   pending, providers, download>>

\* SendComputeReq, step 3 and the return: the handler has closed the stream,
\* or the client's own deadline passes while the handler is still executing
SendComputeReqReturn ==
    /\ stream.proto = "compute"
    /\ stream.client = "waiting"
    /\ \/ stream.pc \in {"closed", "aborted"}
       \/ stream.pc = "executing" /\ stream.elapsed >= ComputeTimeout
    /\ lastOp' = [op |-> "SendComputeReq", txID |-> stream.txID,
                  whole |-> Len(stream.in) = Len(ComputeRequestBytes(stream.txID,
                                                      stream.wasm, stream.input)),
                  pc |-> stream.pc, paid |-> stream.paid, reply |-> stream.out,
                  output |-> ReadComputeResult(stream.out).output,
                  err |-> ReadComputeResult(stream.out).err]
    /\ stream' = IF stream.pc = "executing" THEN [stream EXCEPT !.client = "returned"]
                 ELSE NoStream
    /\ UNCHANGED <<chainVars, runVars, storeHandler, retrieveHandler, dht, vault, diskOk,
                   pending, providers, download>>

\* the chain of the compute node changes between two requests: transactions
\* are posted to it and it mines them
JobChain ==
    /\ stream = NoStream
    /\ \/ Boot
       \/ chainOpen /\ Len(Mempool) < MaxJobTxs /\ TipHeight < MaxJobHeight
                    /\ PostTransaction
       \/ chainOpen /\ TipHeight < MaxJobHeight /\ MinerLoop

\* the requests clients send: every job under every txId, arriving whole, and
\* one of them breaking off at each cut point
ComputeClient ==
    \/ \E txID \in ComputeTxIDs, job \in ComputeJobs :
           SendComputeReqWrite(txID, job[1], job[2],
                               Len(ComputeRequestBytes(txID, job[1], job[2])))
    \/ \E arrived \in CutPoints("FREE_PASS",
                                 ComputeRequestBytes("FREE_PASS", WasmEcho, <<104, 105>>)) :
           SendComputeReqWrite("FREE_PASS", WasmEcho, <<104, 105>>, arrived)

\* a compute node from setupNode serving one Compute stream at a time
NextJob ==
    \/ JobChain
    \/ ComputeClient
    \/ ComputeHeader
    \/ ComputeBody
    \/ ComputeReadDeadline
    \/ ComputeExecute
    \/ ComputeRespond
    \/ ComputeTick
    \/ SendComputeReqReturn

SpecJob == Init /\ [][NextJob]_vars

\* a node from setupNode that also serves the Retrieve protocol, with one
\* Store, Retrieve or Compute stream open at a time
NextFrame ==
    \/ SetupNode
    \/ \E v \in {"nil", "vault"} : HandleRetrieveStream(v)
    \/ StoreClient
    \/ StoreHandlerStore
    \/ StoreHandlerAck
    \/ SendStoreReqReturn
    \/ RetrieveClient
    \/ RetrieveHandler
    \/ SendRetrieveReqReturn
    \/ ComputeClient
    \/ ComputeHeader
    \/ ComputeBody
    \/ ComputeReadDeadline
    \/ ComputeExecute
    \/ ComputeRespond
    \/ ComputeTick
    \/ SendComputeReqReturn

SpecFrame == Init /\ [][NextFrame]_vars

----
(* Block gossip: BroadcastBlock and listenForBlocks on the block topic *)

\* the process ends: every goroutine ends where it is, handlers, streams and
\* the in-memory chain are gone, the database directories stay as they were
\* last committed
ProcessEnds(how) ==
    /\ chainOpen' = FALSE
    /\ myAddress' = ""
    /\ LastHash' = ""
    /\ Mempool' = <<>>
    /\ inflight' = [p \in Procs |-> Idle]
    /\ sub' = <<>>
    /\ storeHandler' = "none"
    /\ retrieveHandler' = "none"
    /\ dht' = FALSE
    /\ stream' = NoStream
    /\ pending' = {}
    /\ download' = NoDownload
    /\ upload' = NoUpload
    /\ node' = IF node = NodeOff THEN node ELSE [node EXCEPT !.state = "exited"]
    /\ lastOp' = [op |-> how]
    /\ UNCHANGED <<dbVars, now, vault, diskOk, providers, cancelled>>

\* the coinbase of a block another peer mined
RemoteCoinbase ==
    [From |-> "SYSTEM", To |-> "B", Amount |-> BlockReward, Timestamp |-> now,
     Signature |-> "", ID |-> "COINBASE_" \o ToString(now)]

\* blocks other peers broadcast: the block a miner at this node's tip mines,
\* and the block this node has as its tip
RemoteBlocks ==
    { BuildBlock(<<RemoteCoinbase>>, ViewLastHash, ViewLastHeight, now),
      BlockAt(ViewLastHash) }

\* pubsub hands the node a block message that peer `from` published
DeliverBlock(from, b) ==
    /\ chainOpen
    /\ Len(sub) < MaxSub
    /\ sub' = Append(sub, BlockMessage(from, b))
    /\ lastOp' = [op |-> "Deliver"]
    /\ UNCHANGED <<chainVars, netVars, upload, cancelled, node>>

OwnMessageNever(msg) == FALSE

\* `msg.ReceivedFrom == n.Host.ID()`
OwnMessage(msg) == msg.ReceivedFrom = Self

\* one iteration of the loop of listenForBlocks (n.Chain is set): a message of
\* the node itself is skipped; any other is deserialized and logged, and
\* n.Chain.AddBlock is called with no transactions
ListenNext ==
    /\ chainOpen
    /\ sub # <<>>
    /\ IF OwnMessage(Head(sub))
       THEN /\ sub' = Tail(sub)
            /\ lastOp' = [op |-> "listenForBlocks", own |-> TRUE, deserialized |-> FALSE]
            /\ UNCHANGED <<chainVars, netVars, upload, cancelled, node>>
       ELSE IF ~GobDecodes(Head(sub).Data)
       THEN ProcessEnds("panic")
       ELSE /\ sub' = Tail(sub)
            /\ AddBlock(<<>>)
            /\ UNCHANGED <<now, upload, cancelled, node>>

RemoteDeliver ==
    /\ chainOpen
    /\ \E from \in RemotePeers, b \in RemoteBlocks : DeliverBlock(from, b)

\* the chain of a gossiping node, up to MaxGossipHeight blocks
GossipPost ==
    /\ chainOpen
    /\ Len(Mempool) < MaxGossipTxs
    /\ TipHeight < MaxGossipHeight
    /\ AddTransaction(ClientTx("A", "B", MinComputeFee, 1, "R|S"))
GossipMine == chainOpen /\ TipHeight < MaxGossipHeight /\ MinerLoop
GossipListen ==
    /\ chainOpen
    /\ sub # <<>>
    /\ OwnMessage(Head(sub)) \/ ~GobDecodes(Head(sub).Data) \/ TipHeight < MaxGossipHeight
    /\ ListenNext

\* a mining full node on the block topic with other peers
NextGossip ==
    \/ Boot
    \/ GossipPost
    \/ GossipMine
    \/ RemoteDeliver
    \/ GossipListen

SpecGossip == Init /\ [][NextGossip]_vars

\* payloads on the block topic that are no gob encoding of a block
JunkPayloads == {<<>>, <<"junk">>}

\* pubsub hands the node a message of peer `from` with such a payload
DeliverJunk(from, payload) ==
    /\ chainOpen
    /\ Len(sub) < MaxSub
    /\ sub' = Append(sub, [ReceivedFrom |-> from, Data |-> payload])
    /\ lastOp' = [op |-> "Deliver"]
    /\ UNCHANGED <<chainVars, netVars, upload, cancelled, node>>

JunkDeliver == \E from \in RemotePeers, payload \in JunkPayloads : DeliverJunk(from, payload)

\* the gossiping node when peers also publish arbitrary bytes
NextGarble ==
    \/ NextGossip
    \/ JunkDeliver

SpecGarble == Init /\ [][NextGarble]_vars

----
(* Shutdown: the signal goroutine of main and the proof-of-work loop *)

\* NewBlock(txs, lastHash, lastHeight+1) of AddBlock, before MineBlock
AddBlockNew(p) ==
    /\ inflight[p].pc = "read"
    /\ inflight' = [inflight EXCEPT ![p].pc = "mining",
                        ![p].newBlock = NewBlock(inflight[p].txs, ViewLastHash,
                                                 ViewLastHeight + 1, now)]
    /\ lastOp' = [op |-> "AddBlockStep"]
    /\ UNCHANGED <<dbVars, chainOpen, myAddress, LastHash, Mempool, now>>
    /\ UNCHANGED <<netVars, runVars>>

\* one pass of the loop of MineBlock: break on a hash with the target prefix,
\* otherwise the next nonce and its hash; the loop reads no context
MineBlockIterate(p) ==
    /\ inflight[p].pc = "mining"
    /\ LET b  == inflight[p].newBlock
           b1 == [b EXCEPT !.Nonce = b.Nonce + 1]
       IN  IF HasPrefix(b.Hash, Repeat("0", Difficulty))
           THEN /\ inflight' = [inflight EXCEPT ![p].pc = "mined"]
                /\ lastOp' = [op |-> "MineBlock", found |-> TRUE, nonce |-> b.Nonce,
                              cancelled |-> cancelled]
           ELSE /\ b.Nonce < MaxNonce
                /\ inflight' = [inflight EXCEPT
                                    ![p].newBlock = [b1 EXCEPT !.Hash = CalculateHash(b1)]]
                /\ lastOp' = [op |-> "MineBlock", found |-> FALSE, nonce |-> b1.Nonce,
                              cancelled |-> cancelled]
    /\ UNCHANGED <<dbVars, chainOpen, myAddress, LastHash, Mempool, now>>
    /\ UNCHANGED <<netVars, runVars>>

\* SIGINT or SIGTERM arrives: the signal goroutine calls cancel()
Signal ==
    /\ chainOpen
    /\ ~cancelled
    /\ cancelled' = TRUE
    /\ UNCHANGED <<chainVars, netVars, upload, sub, lastOp, node>>

\* the signal goroutine goes on to os.Exit(0)
Exit ==
    /\ chainOpen
    /\ cancelled
    /\ ProcessEnds("Exit")

\* the miner's AddBlock, one nonce at a time
MinerAddBlock ==
    \/ MinerStart
    \/ AddBlockNew("miner")
    \/ MineBlockIterate("miner")
    \/ AddBlockUpdate("miner")
    \/ AddBlockCommit("miner")
    \/ AddBlockReturn("miner")

\* a mining node from start to shutdown
NextCancel ==
    \/ ~cancelled /\ Boot
    \/ HandleTransaction
    \/ MinerAddBlock
    \/ Signal
    \/ Exit

SpecCancel == Init /\ [][NextCancel]_vars

----
(* The full node process: setupNode, its compute mode, and shutdown *)

\* the --mode flag
Modes == {"full", "compute", "storage"}

\* `computeMode == "full" || computeMode == "compute"`
ComputeModeAlways(mode) == TRUE

ComputeMode(mode) == mode \in {"full", "compute"}

\* setupNode steps 1 to 6 in a fresh process: wallet, InitBlockchain, InitVault,
\* NewNode, HandleStoreStream(vault), SetupBlockPropagation, EnableDHT
SetupNodeBase(mode) ==
    /\ node.state \in {"off", "exited"}
    /\ \E minerAddress \in Addrs : InitBlockchain(minerAddress)
    /\ storeHandler' = "vault"
    /\ dht' = TRUE
    /\ cancelled' = FALSE
    /\ node' = [state |-> "running", mode |-> mode, pc |-> "dht", vaultOpen |-> TRUE,
                vm |-> FALSE, computeHandler |-> FALSE, sleep |-> -1,
                announced |-> FALSE, setup |-> 0]
    /\ UNCHANGED <<retrieveHandler, vault, diskOk, stream, pending, providers, download,
                   upload, sub>>

\* step 7, first statement: `go func() { time.Sleep(5 * time.Second); ... }()`
\* in compute mode; any other mode goes on to step 8
SpawnAnnouncer ==
    /\ node.state = "running"
    /\ node.pc = "dht"
    /\ node' = IF ComputeMode(node.mode)
               THEN [node EXCEPT !.pc = "spawned", !.sleep = 0]
               ELSE [node EXCEPT !.pc = "api"]
    /\ lastOp' = [op |-> "setupNode"]
    /\ UNCHANGED <<chainVars, netVars, upload, sub, cancelled>>

\* step 7: compute.NewVM(ctx)
NewVM ==
    /\ node.state = "running"
    /\ node.pc = "spawned"
    /\ node' = [node EXCEPT !.pc = "vm", !.vm = TRUE]
    /\ lastOp' = [op |-> "setupNode"]
    /\ UNCHANGED <<chainVars, netVars, upload, sub, cancelled>>

\* step 7: node.HandleComputeStream(vm) sets the stream handler
RegisterCompute ==
    /\ node.state = "running"
    /\ node.pc = "vm"
    /\ node' = [node EXCEPT !.pc = "api", !.computeHandler = TRUE]
    /\ lastOp' = [op |-> "setupNode"]
    /\ UNCHANGED <<chainVars, netVars, upload, sub, cancelled>>

\* step 8 and the return of setupNode
StartAPIServer ==
    /\ node.state = "running"
    /\ node.pc = "api"
    /\ node' = [node EXCEPT !.pc = "serving"]
    /\ lastOp' = [op |-> "setupNode"]
    /\ UNCHANGED <<chainVars, netVars, upload, sub, cancelled>>

\* a second passes: the announcer sleeps on; the main goroutine, while between
\* the go statement and the handler registration, has used up to SetupSeconds
SecondPasses ==
    /\ node.state = "running"
    /\ node.sleep >= 0
    /\ node.sleep < AnnounceDelay
    /\ node.pc \in {"spawned", "vm"} => node.setup < SetupSeconds
    /\ node' = [node EXCEPT !.sleep = @ + 1,
                            !.setup = IF node.pc \in {"spawned", "vm"} THEN @ + 1 ELSE @]
    /\ lastOp' = [op |-> "Second"]
    /\ UNCHANGED <<chainVars, netVars, upload, sub, cancelled>>

\* the announcer wakes: node.DHT.Announce("compute-node"), its error dropped
AnnounceComputeNode(ok) ==
    /\ node.state = "running"
    /\ node.sleep = AnnounceDelay
    /\ node' = [node EXCEPT !.sleep = -1, !.announced = ok]
    /\ lastOp' = [op |-> "Announce", key |-> "compute-node", ok |-> ok]
    /\ UNCHANGED <<chainVars, netVars, upload, sub, cancelled>>

\* a peer opens a Compute stream to the node: without a handler for the
\* protocol the stream is refused, with one the job goes to the handler
InboundCompute ==
    /\ node.state = "running"
    /\ lastOp' = [op |-> "InboundCompute", handled |-> node.computeHandler,
                  mode |-> node.mode]
    /\ UNCHANGED <<chainVars, netVars, runVars>>

StartFullNode == \E mode \in Modes : SetupNodeBase(mode)

WakeAnnouncer == \E ok \in BOOLEAN : AnnounceComputeNode(ok)

\* a full node from start to shutdown, and started again
NextFullNode ==
    \/ StartFullNode
    \/ SpawnAnnouncer
    \/ NewVM
    \/ RegisterCompute
    \/ StartAPIServer
    \/ SecondPasses
    \/ WakeAnnouncer
    \/ InboundCompute
    \/ Signal
    \/ Exit

SpecFullNode == Init /\ [][NextFullNode]_vars

----
(* wallet.go: Sign and VerifySignature *)

HexDigits == "0123456789abcdef"

\* one character of a string
CharAt(s, i) == SubSeq(s, i, i)

IsSpace(c) == c = " "

IsHexDigit(c) == \E d \in 1..16 : CharAt(HexDigits, d) = c

HexVal(c) == (CHOOSE d \in 1..16 : CharAt(HexDigits, d) = c) - 1

RECURSIVE FormatHex(_)
\* fmt's %x of a non-negative integer
FormatHex(n) ==
    IF n < 16 THEN CharAt(HexDigits, n + 1)
    ELSE FormatHex(n \div 16) \o CharAt(HexDigits, (n % 16) + 1)

RECURSIVE SkipSpace(_)
\* fmt scanning: a verb skips leading space
SkipSpace(s) == IF Len(s) > 0 /\ IsSpace(CharAt(s, 1)) THEN SkipSpace(Tail(s)) ELSE s

RECURSIVE TokenLen(_)
\* %s: the run of characters up to the next space
TokenLen(s) ==
    IF Len(s) = 0 \/ IsSpace(CharAt(s, 1)) THEN 0 ELSE 1 + TokenLen(Tail(s))

RECURSIVE HexLen(_)
\* %x into a big.Int: the run of hex digits
HexLen(s) ==
    IF Len(s) = 0 \/ ~IsHexDigit(CharAt(s, 1)) THEN 0 ELSE 1 + HexLen(Tail(s))

RECURSIVE ParseHex(_, _)
ParseHex(s, acc) ==
    IF Len(s) = 0 THEN acc ELSE ParseHex(Tail(s), acc * 16 + HexVal(CharAt(s, 1)))

\* a literal of the format: the next input character has to be it
MatchLiteral(s, c) == Len(s) > 0 /\ CharAt(s, 1) = c

\* fmt.Sscanf(signature, "%s|%s", &rHex, &sHex): the number of items scanned
ScanStrings(signature) ==
    LET in1 == SkipSpace(signature)
        n1  == TokenLen(in1)
        in2 == SubSeq(in1, n1 + 1, Len(in1))
        in3 == SkipSpace(Tail(in2))
    IN  IF n1 = 0 THEN 0
        ELSE IF ~MatchLiteral(in2, "|") THEN 1
        ELSE IF TokenLen(in3) = 0 THEN 1
        ELSE 2

\* fmt.Sscanf(signature, "%x|%x", &r, &s)
ScanHexPair(signature) ==
    LET in1 == SkipSpace(signature)
        n1  == HexLen(in1)
        in2 == SubSeq(in1, n1 + 1, Len(in1))
        in3 == SkipSpace(Tail(in2))
        n2  == HexLen(in3)
    IN  IF n1 = 0 \/ ~MatchLiteral(in2, "|") \/ n2 = 0
        THEN [err |-> TRUE, r |-> 0, s |-> 0]
        ELSE [err |-> FALSE, r |-> ParseHex(SubSeq(in1, 1, n1), 0),
              s |-> ParseHex(SubSeq(in3, 1, n2), 0)]

\* wallets by their private key; the public key of a wallet is known by the
\* same number
WalletKeys == {1, 2}

\* hashes handed to Sign
DataHashes == {0, 1, 2}

\* the random nonce ecdsa.Sign draws
SignNonces == {1, 2, 17}

\* ecdsa.Sign and ecdsa.Verify, symbolically: s binds the key, the hash and r
EcdsaS(key, dataHash, r) == ((7 * key + 3 * dataHash + r) % 251) + 1

EcdsaVerify(pub, dataHash, r, s) == s = EcdsaS(pub, dataHash, r)

\* Wallet.Sign: fmt.Sprintf("%x|%x", r, s)
Sign(w, dataHash, nonce) == FormatHex(nonce) \o "|" \o FormatHex(EcdsaS(w, dataHash, nonce))

\* VerifySignature
VerifySignature(pub, dataHash, signature) ==
    LET n    == ScanStrings(signature)
        scan == ScanHexPair(signature)
    IN  IF scan.err \/ n # 2 THEN FALSE
        ELSE EcdsaVerify(pub, dataHash, scan.r, scan.s)

\* strings that are no signature
Malformed == {"", "|", "1|", "|2", "12", "zz|1", "1 |2", "1| 2", "1 | 2", "g"}

\* signatures handed to VerifySignature: those wallets produce, and malformed ones
Signatures ==
    { Sign(w, h, k) : w \in WalletKeys, h \in DataHashes, k \in SignNonces } \cup Malformed

SignCall(w, dataHash, nonce) ==
    /\ lastOp' = [op |-> "Sign", wallet |-> w, hash |-> dataHash,
                  signature |-> Sign(w, dataHash, nonce)]
    /\ UNCHANGED <<chainVars, netVars, runVars>>

VerifyCall(pub, dataHash, signature) ==
    /\ lastOp' = [op |-> "VerifySignature", pub |-> pub, hash |-> dataHash,
                  signature |-> signature,
                  valid |-> VerifySignature(pub, dataHash, signature)]
    /\ UNCHANGED <<chainVars, netVars, runVars>>

SignStep == \E w \in WalletKeys, h \in DataHashes, k \in SignNonces : SignCall(w, h, k)

VerifyStep == \E pub \in WalletKeys, h \in DataHashes, sig \in Signatures : VerifyCall(pub, h, sig)

NextWallet ==
    \/ SignStep
    \/ VerifyStep

SpecWallet == Init /\ [][NextWallet]_vars

----
(* The HTTP gateway: handleJobSubmit *)

\* SendComputeReq to a provider, from the request to the return: the provider's
\* handler checks the payment, runs the module and replies; a module that does
\* not return leaves the client at its deadline
RemoteCompute(wasmCode, inputData, paymentTx) ==
    LET paid == PaymentVerified(paymentTx)
        run  == VMRun(wasmCode, inputData)
        res  == ReadComputeResult(ComputeReply(paid, ComputeOutput(run)))
    IN  IF paid /\ ~run.returns
        THEN [ran |-> TRUE, isNil |-> TRUE, result |-> <<>>, err |-> "failed to read result length"]
        ELSE [ran |-> paid, isNil |-> res.err # "", result |-> res.output, err |-> res.err]

\* `if result == nil && s.VM != nil`
LocalFallback(resultIsNil, vmSet) == resultIsNil /\ vmSet

\* handleJobSubmit on a wasm binary: a remote provider other than the node
\* itself is tried first when the DHT lists one, then the local VM
HandleJobSubmit(wasmCode, inputData, paymentTx, remoteProvider, vmSet) ==
    /\ chainOpen
    /\ LET remote == IF remoteProvider
                     THEN RemoteCompute(wasmCode, inputData, paymentTx)
                     ELSE [ran |-> FALSE, isNil |-> TRUE, result |-> <<>>, err |-> ""]
           local  == LocalFallback(remote.isNil, vmSet)
           run    == VMRun(wasmCode, inputData)
       IN  lastOp' = [op |-> "handleJobSubmit", paymentTx |-> paymentTx,
                      paid |-> PaymentVerified(paymentTx),
                      remoteProvider |-> remoteProvider,
                      remoteRan |-> remote.ran, localRan |-> local,
                      responded |-> ~local \/ run.returns,
                      status |-> IF local
                                 THEN (IF run.err # "" THEN "failed" ELSE "complete")
                                 ELSE (IF remote.err # "" THEN "failed" ELSE "complete")]
    /\ UNCHANGED <<chainVars, netVars, runVars>>

SubmitJob ==
    \E job \in ComputeJobs, paymentTx \in ComputeTxIDs, remoteProvider \in BOOLEAN,
       vmSet \in BOOLEAN :
        HandleJobSubmit(job[1], job[2], paymentTx, remoteProvider, vmSet)

\* a gateway node whose chain grows while jobs are submitted over HTTP
NextGateway ==
    \/ JobChain
    \/ chainOpen /\ SubmitJob

SpecGateway == Init /\ [][NextGateway]_vars

----
(* Paid jobs on a changing chain *)

\* the transfer a client pays a job with
PaidTransfer == ClientTx("A", "B", MinComputeFee, 1, "R|S")

\* request bodies of POST /api/v1/transaction (any JSON object decodes into a
\* Transaction): the paying transfer, and a smaller transfer whose ID field
\* repeats the ID of the paying one
ReplayTxInputs ==
    { PaidTransfer,
      [ClientTx("A", "B", MinComputeFee - 1, 1, "R|S") EXCEPT !.ID = PaidTransfer.ID] }

\* the txIds the clients of the compute node send
ReplayTxIDs == {"FREE_PASS", "unknown", PaidTransfer.ID}

\* APIServer.handleTransaction on these bodies
ReplayPost == \E tx \in ReplayTxInputs : AddTransaction(tx)

\* HandleComputeStream on whole requests under each txId
ReplayCompute == \E txID \in ReplayTxIDs : HandleComputeStream(txID, TRUE)

\* a mining node that serves Compute requests between transactions and blocks
NextReplay ==
    \/ Boot
    \/ ReplayPost
    \/ MinerLoop
    \/ ReplayCompute

SpecReplay == Init /\ [][NextReplay]_vars

----
(* Properties *)

StoredBlocks == { BlockAt(h) : h \in DOMAIN dbBlocks }

\* C1 - Payment gate: a Compute request whose txId is not "FREE_PASS" never
\* reaches VM.Run when FindTransaction(txId) fails or the transaction found has
\* Amount < 5; a request whose frames arrive whole is executed when its txId is
\* "FREE_PASS" or names a transaction with Amount >= 5.
PaymentGate ==
    [][lastOp'.op = "Compute" =>
        LET txID == lastOp'.txID
            paid == /\ FindTransaction(txID).err = ""
                    /\ FindTransaction(txID).tx.Amount >= 5
        IN  lastOp'.ran <=> (lastOp'.framesRead /\ (txID = "FREE_PASS" \/ paid))]_vars

\* a complete request naming an indexed transaction below the fee was refused
PaymentGateWitness ==
    /\ lastOp.op = "Compute"
    /\ lastOp.framesRead
    /\ ~lastOp.ran
    /\ lastOp.txID \in DOMAIN dbTxIndex
    /\ FindTransaction(lastOp.txID).err = ""
    /\ FindTransaction(lastOp.txID).tx.Amount = 4

\* C2 - PoW invariant: every block in the chain store has a Hash that starts
\* with Difficulty '0' characters and equals CalculateHash of its own Index,
\* Timestamp, transaction IDs, PrevHash and Nonce.
PoWInvariant ==
    \A b \in StoredBlocks :
        /\ HasPrefix(b.Hash, Repeat("0", 2))
        /\ b.Hash = CalculateHash(b)

\* two blocks are stored and the search of one of them went past nonce 0
PoWInvariantWitness ==
    /\ Cardinality(DOMAIN dbBlocks) >= 2
    /\ \E b \in StoredBlocks : b.Index > 0 /\ b.Nonce > 0

RECURSIVE WalkLength(_, _)
\* blocks visited walking PrevHash from hash down to the genesis sentinel;
\* -1 when the walk meets a hash the store does not have
WalkLength(hash, fuel) ==
    IF hash \notin DOMAIN dbBlocks \/ fuel = 0 THEN 0 - 1
    ELSE IF BlockAt(hash).PrevHash = "0" THEN 1
    ELSE LET rest == WalkLength(BlockAt(hash).PrevHash, fuel - 1)
         IN  IF rest < 0 THEN rest ELSE rest + 1

RECURSIVE WalkLinked(_, _)
\* every non-genesis block on the walk has its parent in the store, one Index below
WalkLinked(hash, fuel) ==
    \/ fuel = 0
    \/ /\ hash \in DOMAIN dbBlocks
       /\ LET b == BlockAt(hash)
          IN  \/ b.PrevHash = "0"
              \/ /\ b.PrevHash \in DOMAIN dbBlocks
                 /\ b.Index = BlockAt(b.PrevHash).Index + 1
                 /\ WalkLinked(b.PrevHash, fuel - 1)

\* C3 - Chain connectivity: walking PrevHash from the block lh names reaches the
\* genesis block (PrevHash "0") in exactly tip.Index + 1 steps, and every
\* non-genesis block on the walk has its parent in the store with Index one less.
ChainConnectivity ==
    "lh" \in DOMAIN dbLh =>
        /\ dbLh["lh"] \in DOMAIN dbBlocks
        /\ WalkLength(dbLh["lh"], Cardinality(DOMAIN dbBlocks) + 1) = TipHeight + 1
        /\ WalkLinked(dbLh["lh"], Cardinality(DOMAIN dbBlocks) + 1)

\* the chain has grown to two blocks above genesis
ChainConnectivityWitness ==
    /\ "lh" \in DOMAIN dbLh
    /\ TipHeight = 2

\* C4 - Index consistency: for every block B in the chain store (genesis
\* included) and every transaction tx of B, the entry tx_<tx.ID> exists and
\* its value is B.Hash.
IndexConsistency ==
    \A b \in StoredBlocks : \A i \in 1..Len(b.Transactions) :
        /\ b.Transactions[i].ID \in DOMAIN dbTxIndex
        /\ dbTxIndex[b.Transactions[i].ID] = b.Hash

\* C5 - No negative committed balance: GetBalance(a) >= 0 for every address a
\* other than "SYSTEM", after any sequence of AddTransaction and AddBlock calls.
NoNegativeBalance ==
    chainOpen => \A a \in Addrs : GetBalance(a) >= 0

RECURSIVE SumAmounts(_, _, _)
\* sum of Amount over the transactions of txs whose field `side` is address
SumAmounts(txs, side, address) ==
    IF txs = <<>> THEN 0
    ELSE (IF Head(txs)[side] = address THEN Head(txs).Amount ELSE 0)
         + SumAmounts(Tail(txs), side, address)

RECURSIVE SumOverStore(_, _, _)
SumOverStore(hashes, side, address) ==
    IF hashes = {} THEN 0
    ELSE LET h == CHOOSE x \in hashes : TRUE
         IN  SumAmounts(BlockAt(h).Transactions, side, address)
             + SumOverStore(hashes \ {h}, side, address)

\* C6 - Balance replay: GetBalance(A) equals the sum of Amount over transactions
\* with To = A minus the sum over transactions with From = A, taken over all
\* blocks in the chain store.
BalanceReplay ==
    chainOpen =>
        \A a \in Addrs \cup {"SYSTEM"} :
            GetBalance(a) = SumOverStore(DOMAIN dbBlocks, "To", a)
                            - SumOverStore(DOMAIN dbBlocks, "From", a)

\* C7 - AddTransaction acceptance rule: an empty Signature gives the
\* invalid-signature error; otherwise GetBalance(tx.From) < tx.Amount gives
\* insufficient-funds; otherwise tx is appended at the end of the mempool and nil
\* is returned; on either failure mempool and chain store are unchanged.
AddTransactionRule ==
    [][lastOp'.op = "AddTransaction" =>
        LET tx == lastOp'.tx
            err == lastOp'.err
        IN  /\ tx.Signature = "" => err = "invalid transaction signature"
            /\ (tx.Signature # "" /\ GetBalance(tx.From) < tx.Amount)
                   => err = "insufficient funds"
            /\ (tx.Signature # "" /\ GetBalance(tx.From) >= tx.Amount)
                   => (err = "" /\ Mempool' = Append(Mempool, tx))
            /\ err # "" => (Mempool' = Mempool /\ dbVars' = dbVars)]_vars

\* a signed transaction was refused for insufficient funds while others wait
AddTransactionRuleWitness ==
    /\ lastOp.op = "AddTransaction"
    /\ lastOp.err = "insufficient funds"
    /\ Len(Mempool) > 0

\* C8 - AddBlock(txs) called sequentially produces a block with
\* Index = tip.Index + 1, PrevHash = lh before the call and Transactions = txs
\* followed by the mempool in mempool order; afterwards lh is the new block's
\* hash, the block is stored under its hash and the mempool is empty.
AddBlockResult ==
    [][lastOp'.op = "AddBlock" =>
        LET b == lastOp'.block
        IN  /\ b.Index = TipHeight + 1
            /\ b.PrevHash = dbLh["lh"]
            /\ b.Transactions = lastOp'.txs \o Mempool
            /\ dbLh' = [lh |-> b.Hash]
            /\ b.Hash \in DOMAIN dbBlocks'
            /\ DeserializeBlock(dbBlocks'[b.Hash]) = b
            /\ Mempool' = <<>>]_vars

\* the miner loop mined its coinbase followed by two pending transactions
AddBlockResultWitness ==
    /\ lastOp.op = "AddBlock"
    /\ Len(lastOp.txs) = 1
    /\ Len(lastOp.block.Transactions) = 3
    /\ lastOp.block.Transactions[2] # lastOp.block.Transactions[3]

\* tx is in a stored block, in the block an AddBlock call in progress is
\* building, or in the mempool
Retained(tx, blocks, calls, mempool) ==
    \/ \E h \in DOMAIN blocks :
          \E i \in 1..Len(DeserializeBlock(blocks[h]).Transactions) :
              DeserializeBlock(blocks[h]).Transactions[i] = tx
    \/ \E p \in Procs : calls[p].pc # "idle" /\ \E i \in 1..Len(calls[p].txs) : calls[p].txs[i] = tx
    \/ \E i \in 1..Len(mempool) : mempool[i] = tx

\* C9 - Mempool serialization: when AddTransaction runs concurrently with
\* AddBlock, no transaction AddTransaction accepted leaves the mempool without
\* being included in a persisted block.
MempoolSerialized ==
    [][chainOpen' =>
        \A i \in 1..Len(Mempool) : Retained(Mempool[i], dbBlocks', inflight', Mempool')]_vars

\* C10 - Genesis initialization: InitBlockchain on a store without lh persists
\* exactly one block, with Index 0, PrevHash "0" and the single transaction
\* {From "SYSTEM", To minerAddress, Amount 1000000, ID "GENESIS_COINBASE"},
\* whose hash has the difficulty prefix, and sets lh to that hash; on a store
\* that has lh it creates no block, leaves the store unchanged and returns
\* LastHash equal to the stored lh.
GenesisInitialization ==
    [][lastOp'.op = "InitBlockchain" =>
        IF "lh" \notin DOMAIN dbLh
        THEN /\ Cardinality(DOMAIN dbBlocks') = 1
             /\ \A h \in DOMAIN dbBlocks' :
                    LET g == DeserializeBlock(dbBlocks'[h])
                    IN  /\ g.Hash = h
                        /\ g.Index = 0
                        /\ g.PrevHash = "0"
                        /\ Len(g.Transactions) = 1
                        /\ g.Transactions[1].From = "SYSTEM"
                        /\ g.Transactions[1].To = lastOp'.minerAddress
                        /\ g.Transactions[1].Amount = 1000000
                        /\ g.Transactions[1].ID = "GENESIS_COINBASE"
                        /\ HasPrefix(h, "00")
                        /\ dbLh' = [lh |-> h]
                        /\ LastHash' = h
        ELSE /\ dbVars' = dbVars
             /\ LastHash' = dbLh["lh"]]_vars

\* a process reopened a store whose chain had grown, under another wallet
GenesisInitializationWitness ==
    /\ lastOp.op = "InitBlockchain"
    /\ ~lastOp.created
    /\ TipHeight >= 1
    /\ BlockAt(dbLh["lh"]).Index = TipHeight
    /\ \E b \in StoredBlocks : b.Index = 0 /\ b.Transactions[1].To # lastOp.minerAddress

\* the IDs FindTransaction is asked for
ProbeIDs ==
    {"GENESIS_COINBASE", "unknown"} \cup DOMAIN dbTxIndex
    \cup { tx.ID : tx \in JsonTxInputs }

\* C11 - FindTransaction(id) returns an error when no tx_<id> entry exists, and
\* otherwise returns a transaction whose ID equals id and that is contained in
\* the block the index entry names; after AddBlock returns block B,
\* FindTransaction(tx.ID) succeeds and returns tx for every tx in
\* B.Transactions.
FindTransactionContract ==
    /\ \A id \in ProbeIDs :
          IF id \notin DOMAIN dbTxIndex
          THEN FindTransaction(id).err # ""
          ELSE /\ FindTransaction(id).err = ""
               /\ FindTransaction(id).tx.ID = id
               /\ dbTxIndex[id] \in DOMAIN dbBlocks
               /\ \E i \in 1..Len(BlockAt(dbTxIndex[id]).Transactions) :
                      BlockAt(dbTxIndex[id]).Transactions[i] = FindTransaction(id).tx
    /\ lastOp.op = "AddBlock" =>
          \A i \in 1..Len(lastOp.block.Transactions) :
              LET tx == lastOp.block.Transactions[i]
              IN  /\ FindTransaction(tx.ID).err = ""
                  /\ FindTransaction(tx.ID).tx = tx

\* C12 - Transaction ID determinism: every transaction that AddTransaction
\* accepts into the mempool (and hence every non-coinbase transaction in a
\* persisted block) satisfies tx.ID = CalculateHash(tx); a transaction whose ID
\* differs from that hash is rejected.
TransactionIDDeterminism ==
    /\ \A i \in 1..Len(Mempool) : Mempool[i].ID = TxCalculateHash(Mempool[i])
    /\ \A b \in StoredBlocks : \A i \in 1..Len(b.Transactions) :
          b.Transactions[i].From # "SYSTEM" =>
              b.Transactions[i].ID = TxCalculateHash(b.Transactions[i])
    /\ (lastOp.op = "AddTransaction" /\ lastOp.tx.ID # TxCalculateHash(lastOp.tx)) =>
          lastOp.err # ""

RECURSIVE WalkSet(_, _)
\* hashes of the blocks visited walking PrevHash from hash
WalkSet(hash, fuel) ==
    IF hash \notin DOMAIN dbBlocks \/ fuel = 0 THEN {}
    ELSE {hash} \cup WalkSet(BlockAt(hash).PrevHash, fuel - 1)

\* C13 - Block reachability under concurrency: in every reachable state,
\* including those reached when the miner loop and the gossip listener call
\* AddBlock concurrently, every block key in the chain store is reachable by
\* walking PrevHash from lh, and no two persisted blocks share the same Index.
BlockReachability ==
    "lh" \in DOMAIN dbLh =>
        /\ DOMAIN dbBlocks = WalkSet(dbLh["lh"], Cardinality(DOMAIN dbBlocks))
        /\ \A a, b \in StoredBlocks : a.Index = b.Index => a = b

\* the blocks of the AddBlock calls in progress that have been mined
MinedBlocks == { inflight[p].newBlock : p \in { q \in Procs : inflight[q].pc \notin {"idle", "read"} } }

\* C14 - Block observability: at every instant a reader can run, either none
\* of {block stored under its hash, lh pointing at it, tx_ entries for all its
\* transactions} is visible or all of them are, and the tip hash a reader uses
\* (bc.LastHash, from which Iterator starts) always names a block present in
\* the store.  Stated for the blocks AddBlock makes (Index > 0); the genesis
\* block, which InitBlockchain stores without tx_ entry, is left out.
BlockObservability ==
    /\ \A b \in { x \in StoredBlocks \cup MinedBlocks : x.Index > 0 } :
          LET stored == b.Hash \in DOMAIN dbBlocks
              indexed == \A i \in 1..Len(b.Transactions) :
                             b.Transactions[i].ID \in DOMAIN dbTxIndex
              named == dbLh = [lh |-> b.Hash]
          IN  /\ stored => indexed
              /\ named => stored
    /\ chainOpen => LastHash \in DOMAIN dbBlocks

\* C18 - Shard round-trip: for every byte sequence D (length from 0 up to the
\* bound) and every set S of shard indices with |S| >= 10, Reconstruct applied
\* to the 14-slot array holding Encode(D)[i] for i in S and nil elsewhere, with
\* originalSize = |D|, returns exactly D; Encode always returns 14 shards of
\* identical length.
ShardRoundTrip ==
    /\ lastOp.op = "Encode" =>
          /\ lastOp.err = ""
          /\ Len(lastOp.shards) = 14
          /\ \A k \in 1..Len(lastOp.shards) : Len(lastOp.shards[k]) = Len(lastOp.shards[1])
    /\ (lastOp.op = "Reconstruct" /\ Cardinality(lastOp.present) >= 10) =>
          /\ lastOp.err = ""
          /\ lastOp.out = lastOp.data

\* C18, amended - for every byte sequence D of length 1 up to the bound and
\* every set S of shard indices with |S| >= 10, Reconstruct applied to the
\* 14-slot array holding Encode(D)[i] for i in S and nil elsewhere, with
\* originalSize = |D|, returns exactly D, and Encode returns 14 shards of
\* identical length; Encode of the empty sequence returns an error and no
\* shards.
ShardRoundTripNonEmpty ==
    /\ lastOp.op = "Encode" =>
          IF lastOp.data = <<>>
          THEN lastOp.err # "" /\ lastOp.shards = <<>>
          ELSE /\ lastOp.err = ""
               /\ Len(lastOp.shards) = 14
               /\ \A k \in 1..Len(lastOp.shards) :
                      Len(lastOp.shards[k]) = Len(lastOp.shards[1])
    /\ (lastOp.op = "Reconstruct" /\ Cardinality(lastOp.present) >= 10) =>
          /\ lastOp.err = ""
          /\ lastOp.out = lastOp.data

\* a file that fills two bytes per shard came back from ten shards, with the
\* two data shards that hold its first bytes among the four missing
ShardRoundTripWitness ==
    /\ lastOp.op = "Reconstruct"
    /\ Cardinality(lastOp.present) = 10
    /\ Len(lastOp.data) = 11
    /\ lastOp.present \cap {1, 2} = {}
    /\ lastOp.out = lastOp.data

\* C19 - Shard erasure bound: for every shard array in which at most 9 of the
\* 14 shards are present, Reconstruct returns an error and returns no data,
\* never a partial or wrong byte sequence.
ShardErasureBound ==
    (lastOp.op = "Reconstruct" /\ Cardinality(lastOp.present) <= 9) =>
        /\ lastOp.err # ""
        /\ lastOp.out = <<>>

\* Reconstruct was given nine shards of a file that fills two bytes per shard,
\* among them every data shard the file's bytes lie in
ShardErasureBoundWitness ==
    /\ lastOp.op = "Reconstruct"
    /\ Cardinality(lastOp.present) = 9
    /\ Len(lastOp.data) > 10
    /\ 1..6 \subseteq lastOp.present
    /\ lastOp.err # ""

RetrieveResponseContract ==
    (lastOp.op = "SendRetrieveReq" /\ lastOp.whole) =>
        IF retrieveHandler = "vault" /\ lastOp.key \in DOMAIN vault
        THEN LET value == vault[lastOp.key]
                 sent == lastOp.sent
             IN  /\ Len(sent) = 1 + 4 + Len(value)
                 /\ sent[1] = 0
                 /\ sent[2] = 0 /\ sent[3] = 0 /\ sent[4] = 0 /\ sent[5] = Len(value)
                 /\ SubSeq(sent, 6, Len(sent)) = value
                 /\ lastOp.err = ""
                 /\ lastOp.data = value
        ELSE /\ lastOp.sent = <<1>>
             /\ lastOp.err # ""
             /\ lastOp.data = <<>>

\* a two-byte value came back from the peer's Vault
RetrieveResponseWitness ==
    /\ lastOp.op = "SendRetrieveReq"
    /\ lastOp.whole
    /\ lastOp.err = ""
    /\ Len(lastOp.data) = 2
    /\ lastOp.data = vault[lastOp.key]

\* C17 - Store-then-retrieve over the network: for two nodes P1 and P2 brought
\* up by setupNode, after (k, v) has been stored on P1 through the Store
\* protocol with ack 0, a Retrieve request for k sent by P2 to P1 is served by
\* P1 and returns v.
StoreThenRetrieve ==
    (lastOp.op = "SendRetrieveReq" /\ lastOp.key \in DOMAIN vault) =>
        /\ lastOp.err = ""
        /\ lastOp.data = vault[lastOp.key]

\* shards of the uploaded file a download can obtain: the DHT names a provider
\* and the provider's Vault holds the shard
Obtainable == { i \in 0..13 : /\ ShardKey(FileName, i) \in providers
                              /\ ShardKey(FileName, i) \in DOMAIN vault }

\* size is the size of the file whose shards the Vault holds
UploadedSize(size) ==
    \A k \in DOMAIN vault : Len(vault[k]) = (size + DataShards - 1) \div DataShards

\* C20 - Download: for each shard index i in 0..13 the download consults the
\* local vault, then DHT.FindProviders for "<blob>-shard-<i>", and fetches the
\* shard through the Retrieve protocol from the first reachable provider; if at
\* least 10 shards are obtained this way it reconstructs and returns the
\* original bytes (given the caller's originalSize), otherwise it fails with
\* InsufficientShards.
DownloadContract ==
    lastOp.op = "Download" =>
        IF Cardinality(Obtainable) >= 10
        THEN UploadedSize(lastOp.size) => lastOp.out = FileBytes(lastOp.size)
        ELSE lastOp.out = <<>> /\ lastOp.log = "Cannot reconstruct."

\* the elements of a sequence
Range(seq) == { seq[k] : k \in 1..Len(seq) }

\* what both dispatch loops do with shard i once the destination list is fixed:
\* key "<blobName>-shard-<i>", destination dest[i mod n], a local destination
\* by Vault.Store and, once stored, DHT.Announce, a remote one by one Store request
DispatchRule ==
    LET i == upload.i
        n == Len(upload.dest)
        local == lastOp'.targetPeer = Self
    IN  /\ n >= 1
        /\ lastOp'.i = i
        /\ lastOp'.key = FileName \o <<45, 115, 104, 97, 114, 100, 45>> \o Itoa(i)
        /\ lastOp'.targetPeer = upload.dest[(i % n) + 1]
        /\ local => /\ lastOp'.vaultStore = 1
                    /\ lastOp'.storeReq = 0
                    /\ lastOp'.ok => /\ lastOp'.key \in DOMAIN vault'
                                     /\ vault'[lastOp'.key] = upload.shards[i + 1]
                                     /\ lastOp'.announce = 1
                                     /\ lastOp'.key \in pending'
        /\ ~local => /\ lastOp'.storeReq = 1
                     /\ lastOp'.vaultStore = 0
                     /\ lastOp'.announce = 0
                     /\ vault' = vault
                     /\ pending' = pending

DispatchInOrder ==
    [][upload.state = "dispatching" /\ upload' # upload =>
           \/ /\ lastOp'.op = "DispatchShard"
              /\ lastOp'.i = upload.i
              /\ upload'.i = upload.i + 1
              /\ upload'.state = "dispatching"
           \/ /\ upload.i = TotalShards
              /\ upload'.state = "complete"
              /\ upload'.i = upload.i]_vars

PaymentPasses(txID) ==
    \/ txID = "FREE_PASS"
    \/ /\ FindTransaction(txID).err = ""
       /\ FindTransaction(txID).tx.Amount >= 5

SilentPaymentRejection ==
    [][stream.proto = "compute" /\ lastOp'.op = "SendComputeReq" =>
           ((~PaymentPasses(stream.txID) /\ Len(stream.in) >= 4 + Len(stream.txID)) =>
                /\ stream.pc = "closed"
                /\ stream.out = <<>>
                /\ stream.read = 4 + Len(stream.txID)
                /\ stream.got = <<stream.txID>>
                /\ lastOp'.err # ""
                /\ lastOp'.output = <<>>)]_vars

\* a whole request that names an indexed transaction of 4 coins was refused
SilentPaymentRejectionWitness ==
    /\ lastOp.op = "SendComputeReq"
    /\ lastOp.whole
    /\ ~lastOp.paid
    /\ lastOp.pc = "closed"
    /\ lastOp.reply = <<>>
    /\ lastOp.err = "failed to read result length"
    /\ lastOp.txID \in DOMAIN dbTxIndex
    /\ FindTransaction(lastOp.txID).err = ""
    /\ FindTransaction(lastOp.txID).tx.Amount = 4

RECURSIVE OnWire(_, _)
\* wire is the fields in order, each as a 32-bit big-endian length followed by
\* exactly that many bytes, and nothing else
OnWire(wire, fields) ==
    IF Len(fields) = 0 THEN Len(wire) = 0
    ELSE LET n == Len(Head(fields))
         IN  /\ Len(wire) >= 4 + n
             /\ \A k \in 1..4 : wire[k] \in 0..255
             /\ wire[1] * 16777216 + wire[2] * 65536 + wire[3] * 256 + wire[4] = n
             /\ SubSeq(wire, 5, 4 + n) = Head(fields)
             /\ OnWire(SubSeq(wire, 5 + n, Len(wire)), Tail(fields))

RECURSIVE WireLength(_)
WireLength(fields) == IF Len(fields) = 0 THEN 0 ELSE 4 + Len(Head(fields)) + WireLength(Tail(fields))

\* the field values the sender of the open stream passed, as bytes
SentFields(s) ==
    IF s.proto = "store" THEN <<s.key, s.data>>
    ELSE IF s.proto = "retrieve" THEN <<s.key>>
    ELSE <<Chars(s.txID), s.wasm, s.input>>

\* the field values the sender passed, as the responder holds them
SentValues(s) ==
    IF s.proto = "store" THEN <<s.key, s.data>>
    ELSE IF s.proto = "retrieve" THEN <<s.key>>
    ELSE <<s.txID, s.wasm, s.input>>

\* the responder of stream s has parsed the last field of its request in this step
ParsedLastField ==
    /\ stream # NoStream
    /\ stream' # NoStream
    /\ \/ stream.proto \in {"store", "retrieve"} /\ stream.pc = "sent" /\ stream'.pc # "sent"
       \/ stream.proto = "compute" /\ stream.pc = "header-read" /\ stream'.pc = "body-read"

\* C25 - Framing exactness: in every Store, Retrieve and Compute exchange whose
\* request arrives whole, the sender has written each field as a 32-bit
\* big-endian length followed by exactly that many bytes, in the order Store:
\* key, data; Retrieve: key; Compute: txId, wasm, input, and the responder
\* recovers exactly the field values the sender passed and has consumed exactly
\* the bytes up to the end of the last field.
FramingExactness ==
    [][/\ (stream = NoStream /\ stream' # NoStream
             /\ Len(stream'.in) = WireLength(SentFields(stream'))) =>
               OnWire(stream'.in, SentFields(stream'))
       /\ (ParsedLastField /\ Len(stream.in) = WireLength(SentFields(stream))) =>
               /\ stream'.got = SentValues(stream)
               /\ stream'.read = Len(stream.in)]_vars

\* the Compute responder holds the three fields of a 25-byte request and has
\* read 25 bytes
FramingExactnessWitness ==
    /\ stream.proto = "compute"
    /\ stream.pc = "body-read"
    /\ stream.got = <<"FREE_PASS", WasmEcho, <<104, 105>>>>
    /\ Len(stream.in) = 25
    /\ stream.read = 25

\* a step of listenForBlocks that takes the next block message off the
\* subscription
Receives == chainOpen /\ chainOpen' /\ sub # <<>> /\ sub' = Tail(sub)

\* the block carried by the message at the head of the subscription
ReceivedBlock == DeserializeBlock(Head(sub).Data)

\* the received block has a proof of work, links to the tip, and is one higher
ExtendsTip(b) ==
    /\ HasPrefix(b.Hash, Repeat("0", Difficulty))
    /\ b.PrevHash = dbLh["lh"]
    /\ b.Index = TipHeight + 1

\* the step puts the received block into the block store
Inserted(b) == b.Hash \notin DOMAIN dbBlocks /\ b.Hash \in DOMAIN dbBlocks'

\* C26: when a block message of another peer is received, the received block
\* is inserted only if it is valid and extends the tip, an inserted block
\* becomes the tip, and a valid block extending the tip is inserted, so that
\* the node has the sender's tip
GossipIngestion ==
    [][ (Receives /\ Head(sub).ReceivedFrom # Self) =>
          /\ Inserted(ReceivedBlock) => ExtendsTip(ReceivedBlock)
          /\ Inserted(ReceivedBlock) => dbLh'["lh"] = ReceivedBlock.Hash
          /\ ExtendsTip(ReceivedBlock) => dbLh'["lh"] = ReceivedBlock.Hash ]_vars

\* C27: receiving a block message of another peer only logs it: the block
\* store, the tip and the mempool stay as they were
GossipLogOnly ==
    [][ (Receives /\ Head(sub).ReceivedFrom # Self) =>
          UNCHANGED <<dbVars, Mempool>> ]_vars

\* C28: a block message the node published itself is dropped unread: nothing
\* but the subscription moves
GossipSelfFilter ==
    [][ (Receives /\ Head(sub).ReceivedFrom = Self) =>
          /\ UNCHANGED <<chainVars, netVars, upload, cancelled, node>>
          /\ lastOp'.op = "listenForBlocks"
          /\ ~lastOp'.deserialized ]_vars

\* the node mined a block, published it, and skipped its own message
GossipSelfFilterWitness ==
    /\ chainOpen
    /\ lastOp.op = "listenForBlocks"
    /\ lastOp.own
    /\ TipHeight >= 1
    /\ sub = <<>>

\* C29: a pass of the proof-of-work loop that began with the root signal
\* cancelled and tried one more nonce is the last pass of that MineBlock: no
\* further pass follows, the block is not mined and nothing is persisted
PoWCancellation ==
    [][ (lastOp.op = "MineBlock" /\ lastOp.cancelled /\ ~lastOp.found) =>
          /\ lastOp'.op # "MineBlock"
          /\ inflight'["miner"].pc # "mined"
          /\ dbBlocks' = dbBlocks ]_vars

\* C30: a Compute handler that has not reached closed or aborted is within
\* its stream deadline
HandlerTermination ==
    stream.proto = "compute" =>
        (stream.pc \notin {"closed", "aborted"} => stream.elapsed <= ComputeTimeout)

\* C31: when the full node process exits on a shutdown signal, the root
\* context is cancelled and the chain store and the vault have been closed
ShutdownClosesStores ==
    [][ (node.state = "running" /\ node'.state = "exited") =>
          /\ cancelled
          /\ ~chainOpen
          /\ ~node.vaultOpen ]_vars

TwoHexIntegers(signature) ==
    \E i \in 2..(Len(signature) - 1) :
        /\ CharAt(signature, i) = "|"
        /\ HexLen(SubSeq(signature, 1, i - 1)) = i - 1
        /\ HexLen(SubSeq(signature, i + 1, Len(signature))) = Len(signature) - i

\* C32: VerifySignature accepts every signature Sign produced with the wallet
\* of the public key for the hash, and rejects every string that is not two
\* hex integers separated by '|'
SigningRoundTrip ==
    lastOp.op = "VerifySignature" =>
        /\ (\E k \in SignNonces : lastOp.signature = Sign(lastOp.pub, lastOp.hash, k))
              => lastOp.valid
        /\ ~TwoHexIntegers(lastOp.signature) => ~lastOp.valid

\* C34: a job submitted through handleJobSubmit is executed, by the remote
\* provider or by the local VM, only if its paymentTx passes the payment check
GatewayPaymentGate ==
    lastOp.op = "handleJobSubmit" =>
        ((lastOp.remoteRan \/ lastOp.localRan) => lastOp.paid)

\* the transactions on the chain: block hash and position
ChainSlots ==
    { <<h, i>> : h \in WalkSet(dbLh["lh"], Cardinality(DOMAIN dbBlocks)), i \in 1..MaxTxs + 1 }

\* C35: no transaction ID occurs more than once among the transactions of the
\* blocks reachable from lh
TransactionUniqueness ==
    "lh" \in DOMAIN dbLh =>
        \A a, b \in ChainSlots :
            LET ta == BlockAt(a[1]).Transactions
                tb == BlockAt(b[1]).Transactions
            IN  (a # b /\ a[2] <= Len(ta) /\ b[2] <= Len(tb)) => ta[a[2]].ID # tb[b[2]].ID

\* the balance of address on the chain the store holds
CommittedBalance(address) == GetBalanceAt(dbBlocks, dbLh["lh"], address)

\* C36: while an AddBlock call is in progress, GetBalance(a) is the balance of
\* a on the chain before the block of that call or on the chain including it
BalanceUnderMining ==
    (chainOpen /\ \E p \in Procs : inflight[p].pc # "idle") =>
        \A a \in Addrs :
            \/ GetBalance(a) = CommittedBalance(a)
            \/ \E b \in MinedBlocks :
                   GetBalance(a) = CommittedBalance(a) + BlockDelta(b.Transactions, a)

\* C37: a block message of another peer whose payload is no block encoding is
\* taken off the subscription and dropped: the node keeps running and goes
\* on to the next message
GossipRobustness ==
    [][ (chainOpen /\ sub # <<>> /\ Len(sub') < Len(sub)
         /\ ~OwnMessage(Head(sub)) /\ ~GobDecodes(Head(sub).Data)) =>
          /\ chainOpen'
          /\ sub' = Tail(sub)
          /\ UNCHANGED <<dbVars, Mempool>> ]_vars

\* C38: every shard key the node has announced, or is about to announce, on
\* the DHT is a key its vault holds
ProviderSoundness == \A key \in pending \cup providers : key \in DOMAIN vault

\* the node is listed as provider of a shard it stored, and a store that
\* failed on the disk was acknowledged with an error and announced nothing
ProviderSoundnessWitness ==
    /\ providers # {}
    /\ providers \subseteq DOMAIN vault
    /\ stream.proto = "store"
    /\ stream.pc = "stored"
    /\ ~stream.wrote
    /\ stream.got[1] \notin pending \cup providers

\* the total Amount of the transactions from "SYSTEM" on the chain walked
\* from the tip
CoinbaseTotal ==
    SumOverStore(WalkSet(LastHash, Cardinality(DOMAIN dbBlocks)), "From", "SYSTEM")

ComputeFrame ==
    lastOp'.op = "Compute" =>
        UNCHANGED <<dbVars, chainOpen, myAddress, LastHash, Mempool, now, inflight,
                    netVars, runVars>>

\* C40: handling a Compute request, accepted or rejected, changes neither the
\* chain store nor the mempool and records nothing, and a txId that the
\* payment check of a request accepts is accepted by the check of every later
\* request: no step of the node turns an accepted txId into a rejected one
PaymentReadOnly ==
    [][/\ ComputeFrame
       /\ \A txID \in ReplayTxIDs : PaymentVerified(txID) => PaymentVerified(txID)']_vars

====
